---- MODULE Spec2Model ----
(***************************************************************************)
(* A model of the URDFViewer custom element                                *)
(* (src/utils/urdf-viewer-element.js): the render loop, the deferred load  *)
(* of a robot model with its sequence counter, and the callbacks the       *)
(* importer delivers.                                                      *)
(*                                                                         *)
(* The element runs on one JavaScript timeline.  Every handler is one      *)
(* action; the animation-frame callbacks of one frame run back to back, in *)
(* the order they were registered, and nothing else runs between them.     *)
(*                                                                         *)
(* A handler is written as an operator from a state record to a state      *)
(* record, so that a handler that calls another (recenter calls            *)
(* _updateEnvironment and redraw) is the composition of the operators.     *)
(* A robot model is named by the number of the request that imported it.   *)
(* Lengths are in thousandths of a scene unit.  A text (an attribute       *)
(* value, a load key) is the sequence of its characters.                   *)
(***************************************************************************)
EXTENDS Integers, Sequences, FiniteSets, TLC

VARIABLES
    pkgAttr,        \* the 'package' attribute (empty when absent)
    urdfAttr,       \* the 'urdf' attribute (empty when absent)
    prevload,       \* this._prevload
    loadScheduled,  \* this._loadScheduled
    requestId,      \* this._requestId
    robot,          \* this.robot (NoRobot for null)
    worldChildren,  \* the robot subtrees that are children of this.world
    disposed,       \* the models whose subtree the dispose traversal has walked
    imports,        \* per request: the importer's progress, and what it was given
    notified,       \* the models for which urdf-processed / geometry-loaded were dispatched
    attached,       \* this.parentNode is set (the element is in a document)
    containerSize,  \* the size the host lays the element out at
    rendererSize,   \* renderer.getSize()
    dirty,          \* this._dirty
    autoRedraw,     \* this.autoRedraw
    noAutoRecenter, \* this.noAutoRecenter
    planeY,         \* this.plane.position.y
    targetY,        \* this.controls.target.y
    displayShadow,  \* the 'display-shadow' attribute is present
    castShadow,     \* directionalLight.castShadow
    lightPosition,  \* directionalLight.position
    lightTarget,    \* directionalLight.target.position
    shadowExtent,   \* directionalLight.shadow.camera: right = top = -left = -bottom
    upAttr,         \* the 'up' attribute (empty when absent)
    worldRotation,  \* this.world.rotation, in quarter turns about x, y, z
    ignoreLimits,   \* the 'ignore-limits' attribute is present
    showCollision,  \* the 'show-collision' attribute is present
    jointValue,     \* per model and joint: jointValue
    jointIgnore,    \* per model and joint: ignoreLimits
    colliderVisible,\* per model: the collider nodes whose visible is true
    rafQueue,       \* callbacks registered with requestAnimationFrame for the next frame
    frameQueue,     \* callbacks of the frame being run that have not run yet
    trace           \* what the last handler did, in order

vars == <<pkgAttr, urdfAttr, prevload, loadScheduled, requestId, robot,
          worldChildren, disposed, imports, notified, attached, containerSize,
          rendererSize, dirty, autoRedraw, noAutoRecenter, planeY, targetY,
          displayShadow, castShadow, lightPosition, lightTarget, shadowExtent,
          upAttr, worldRotation, ignoreLimits, showCollision, jointValue,
          jointIgnore, colliderVisible, rafQueue, frameQueue, trace>>

(***************************************************************************)
(* Bounds and inputs                                                       *)
(***************************************************************************)
MaxRequests == 2
MaxPendingSize == 1
MaxJointRequest == 2

RequestIds == 1..MaxRequests
\* The package specs: none, the mapping a:b, and a:b with a trailing comma.
Packages == {<<>>, <<"a", ":", "b">>, <<"a", ":", "b", ",">>}
Urdfs == {<<>>, <<"a">>, <<"b">>}
LoopUrdfs == {<<"a">>}
SceneUrdfs == {<<"a">>, <<"b">>}
ContainerSizes == {<<800, 600>>, <<400, 300>>}

NoRobot == 0
Undefined == <<"undefined">>
DefaultCanvasSize == <<300, 150>>
DetachedSize == <<0, 0>>
InitialPlaneY == -500
Epsilon == 1
Origin == <<0, 0, 0>>
InitialLightPosition == <<4000, 10000, 1000>>
DefaultShadowExtent == 5000
NoRotation == <<0, 0, 0>>

\* The joints and the collider nodes of every model, and the joints'
\* limits; a parsed joint has the value 0.
JointNames == {"j1", "j2"}
ColliderNames == {"c1", "c2"}
LowerLimit == -1
UpperLimit == 1
ParsedJointValue == 0

\* The joint names and values setJointValue is called with.
JointArguments == JointNames \cup {"j9"}
JointRequests == {-MaxJointRequest, 0, 1, MaxJointRequest}

\* The boxes, in the model's own frame, of the geometry under the visual
\* nodes and under the collider nodes of model m.
VisualNodes(m) ==
    IF m = 1
    THEN {[min |-> <<-1000, 0, -1000>>, max |-> <<1000, 1000, 1000>>],
          [min |-> <<-500, 1000, -500>>, max |-> <<500, 2000, 500>>]}
    ELSE {[min |-> <<-500, -250 * m, -500>>, max |-> <<500, 750 * m, 500>>]}

ColliderNodes(m) == {[min |-> <<-1500, -500, -1500>>, max |-> <<1500, 2500, 1500>>]}

Min(a, b) == IF a < b THEN a ELSE b

Max(a, b) == IF a > b THEN a ELSE b

\* Box3.union
BoxUnion(a, b) ==
    [min |-> <<Min(a.min[1], b.min[1]), Min(a.min[2], b.min[2]), Min(a.min[3], b.min[3])>>,
     max |-> <<Max(a.max[1], b.max[1]), Max(a.max[2], b.max[2]), Max(a.max[3], b.max[3])>>]

\* Cosine and sine of q quarter turns.
Cos(q) == CASE q = 0 -> 1 [] q \in {2, -2} -> -1 [] OTHER -> 0

Sin(q) == CASE q = 1 -> 1 [] q = -1 -> -1 [] OTHER -> 0

\* A point under the Euler rotation r (order XYZ) of the world node.
RotateX(p, q) == <<p[1], p[2] * Cos(q) - p[3] * Sin(q), p[2] * Sin(q) + p[3] * Cos(q)>>

RotateY(p, q) == <<p[1] * Cos(q) + p[3] * Sin(q), p[2], p[3] * Cos(q) - p[1] * Sin(q)>>

RotateZ(p, q) == <<p[1] * Cos(q) - p[2] * Sin(q), p[1] * Sin(q) + p[2] * Cos(q), p[3]>>

Rotate(p, r) == RotateX(RotateY(RotateZ(p, r[3]), r[2]), r[1])

\* Box3.expandByObject: the box of the world-space corners of a node's box.
CornerBox(a, b) ==
    [min |-> <<Min(a[1], b[1]), Min(a[2], b[2]), Min(a[3], b[3])>>,
     max |-> <<Max(a[1], b[1]), Max(a[2], b[2]), Max(a[3], b[3])>>]

WorldBox(box, r) == CornerBox(Rotate(box.min, r), Rotate(box.max, r))

\* The smallest box around a non-empty set of boxes.
RECURSIVE BoxAround(_)
BoxAround(boxes) ==
    LET b == CHOOSE x \in boxes : TRUE
    IN IF boxes = {b} THEN b ELSE BoxUnion(b, BoxAround(boxes \ {b}))

\* The rotations the world node takes: the identity of initScene and
\* those _setUp gives it.
QuarterTurns == {-1, 0, 1, 2}
WorldRotations == {<<x, 0, z>> : x \in QuarterTurns, z \in QuarterTurns}

\* The world-space bounding box of the visual nodes of each model under
\* each rotation of the world node.
VisualBoxes ==
    [m \in RequestIds, r \in WorldRotations |->
        BoxAround({WorldBox(b, r) : b \in VisualNodes(m)})]

VisualBox(m, r) == VisualBoxes[m, r]

\* Box3.getCenter
BoxCenter(box) ==
    <<(box.min[1] + box.max[1]) \div 2, (box.min[2] + box.max[2]) \div 2,
      (box.min[3] + box.max[3]) \div 2>>

\* Math.sqrt, to the thousandth below.
RECURSIVE SqrtBetween(_, _, _)
SqrtBetween(n, lo, hi) ==
    IF lo = hi THEN lo
    ELSE LET mid == (lo + hi + 1) \div 2
         IN IF mid * mid <= n THEN SqrtBetween(n, mid, hi)
            ELSE SqrtBetween(n, lo, mid - 1)

Sqrt(n) == SqrtBetween(n, 0, IF n < 46340 THEN n ELSE 46340)

\* Box3.getBoundingSphere(...).radius: half the length of the diagonal.
BoundingRadius(box) ==
    LET dx == box.max[1] - box.min[1]
        dy == box.max[2] - box.min[2]
        dz == box.max[3] - box.min[3]
    IN Sqrt(dx * dx + dy * dy + dz * dz) \div 2

VectorSub(a, b) == <<a[1] - b[1], a[2] - b[2], a[3] - b[3]>>

VectorAdd(a, b) == <<a[1] + b[1], a[2] + b[2], a[3] + b[3]>>

\* loader.packages: a path, or a mapping from package names to paths.
PackagePath(path) == [isMap |-> FALSE, path |-> path, map |-> {}]

PackageMap(map) == [isMap |-> TRUE, path |-> <<>>, map |-> map]

NoImport == [phase |-> "none", pkg |-> <<>>, urdf |-> <<>>, packages |-> PackagePath(<<>>)]

(***************************************************************************)
(* The state as a record, and its write-back                               *)
(***************************************************************************)
Cur ==
    [pkgAttr |-> pkgAttr, urdfAttr |-> urdfAttr, prevload |-> prevload,
     loadScheduled |-> loadScheduled, requestId |-> requestId, robot |-> robot,
     worldChildren |-> worldChildren, disposed |-> disposed, imports |-> imports,
     notified |-> notified, attached |-> attached, containerSize |-> containerSize,
     rendererSize |-> rendererSize, dirty |-> dirty, autoRedraw |-> autoRedraw,
     noAutoRecenter |-> noAutoRecenter, planeY |-> planeY, targetY |-> targetY,
     displayShadow |-> displayShadow, castShadow |-> castShadow,
     lightPosition |-> lightPosition, lightTarget |-> lightTarget,
     shadowExtent |-> shadowExtent, upAttr |-> upAttr,
     worldRotation |-> worldRotation, ignoreLimits |-> ignoreLimits,
     showCollision |-> showCollision, jointValue |-> jointValue,
     jointIgnore |-> jointIgnore, colliderVisible |-> colliderVisible,
     rafQueue |-> rafQueue, frameQueue |-> frameQueue, trace |-> trace]

\* The handler's result r becomes the next state.
Commit(s) ==
    \E r \in {s} :
        /\ pkgAttr' = r.pkgAttr
        /\ urdfAttr' = r.urdfAttr
        /\ prevload' = r.prevload
        /\ loadScheduled' = r.loadScheduled
        /\ requestId' = r.requestId
        /\ robot' = r.robot
        /\ worldChildren' = r.worldChildren
        /\ disposed' = r.disposed
        /\ imports' = r.imports
        /\ notified' = r.notified
        /\ attached' = r.attached
        /\ containerSize' = r.containerSize
        /\ rendererSize' = r.rendererSize
        /\ dirty' = r.dirty
        /\ autoRedraw' = r.autoRedraw
        /\ noAutoRecenter' = r.noAutoRecenter
        /\ planeY' = r.planeY
        /\ targetY' = r.targetY
        /\ displayShadow' = r.displayShadow
        /\ castShadow' = r.castShadow
        /\ lightPosition' = r.lightPosition
        /\ lightTarget' = r.lightTarget
        /\ shadowExtent' = r.shadowExtent
        /\ upAttr' = r.upAttr
        /\ worldRotation' = r.worldRotation
        /\ ignoreLimits' = r.ignoreLimits
        /\ showCollision' = r.showCollision
        /\ jointValue' = r.jointValue
        /\ jointIgnore' = r.jointIgnore
        /\ colliderVisible' = r.colliderVisible
        /\ rafQueue' = r.rafQueue
        /\ frameQueue' = r.frameQueue
        /\ trace' = r.trace

\* The state a handler named op starts from.
Enter(op) == [Cur EXCEPT !.trace = <<op>>]

Log(s, e) == [s EXCEPT !.trace = Append(@, e)]

Occurs(e, t) == \E i \in 1..Len(t) : t[i] = e

Count(e, t) == Cardinality({i \in 1..Len(t) : t[i] = e})

\* The position of the first e in t, or Len(t) + 1.
FirstAt(e, t) ==
    IF Occurs(e, t) THEN CHOOSE i \in 1..Len(t) : t[i] = e /\ \A j \in 1..(i - 1) : t[j] # e
    ELSE Len(t) + 1

Without(q, c) == SelectSeq(q, LAMBDA x : x # c)

(***************************************************************************)
(* Framing                                                                 *)
(***************************************************************************)
redraw(s) == [s EXCEPT !.dirty = TRUE]

\* The shadow framing moving the light's target and leaving the light
\* where it is.
FrameLight_MovesTargetOnly(s, radius, center, offset) ==
    [s EXCEPT !.shadowExtent = radius,
              !.lightTarget = center]

FrameLight(s, radius, center, offset) ==
    [s EXCEPT !.shadowExtent = radius,
              !.lightTarget = center,
              !.lightPosition = VectorAdd(center, offset)]

FrameBox(s, bbox, center) ==
    LET a == [s EXCEPT !.targetY = center[2],
                       !.planeY = bbox.min[2] - Epsilon,
                       !.castShadow = s.displayShadow]
    IN IF s.displayShadow
       THEN FrameLight(a, BoundingRadius(bbox), center,
                       VectorSub(s.lightPosition, s.lightTarget))
       ELSE a

FrameOn(s, bbox) == FrameBox(s, bbox, BoxCenter(bbox))

\* _updateEnvironment measuring the collider nodes along with the visual
\* nodes.
_updateEnvironment_CountsColliders(s) ==
    IF s.robot = NoRobot THEN s
    ELSE FrameOn(s, BoxAround({WorldBox(b, s.worldRotation) :
                                   b \in VisualNodes(s.robot) \cup ColliderNodes(s.robot)}))

_updateEnvironment(s) ==
    IF s.robot = NoRobot THEN s
    ELSE FrameOn(s, VisualBox(s.robot, s.worldRotation))

recenter(s) == redraw(_updateEnvironment(Log(s, "recenter")))

(***************************************************************************)
(* Render loop                                                             *)
(***************************************************************************)
\* this.clientWidth, this.clientHeight
ClientSize(s) == IF s.attached THEN s.containerSize ELSE DetachedSize

\* updateSize without its call of recenter.
updateSize_NoRecenter(s) == [s EXCEPT !.rendererSize = ClientSize(s)]

updateSize(s) ==
    LET size == ClientSize(s)
        a == IF s.rendererSize # size THEN recenter(s) ELSE s
    IN [a EXCEPT !.rendererSize = size]

\* controls.update(), and the 'change' listener of initControls when the
\* controller reports that the camera moved.
controlsUpdate(s, moved) ==
    LET a == Log(s, "controls")
    IN IF moved THEN recenter(a) ELSE a

\* The draw without the clearing of the flag.
drawScene_KeepsDirty(s) ==
    Log(IF ~s.noAutoRecenter THEN _updateEnvironment(s) ELSE s, "draw")

\* renderer.render and the clearing of the flag, entered when the tick draws.
drawScene(s) ==
    LET a == IF ~s.noAutoRecenter THEN _updateEnvironment(s) ELSE s
    IN [Log(a, "draw") EXCEPT !.dirty = FALSE]

\* The frame callback drawing only under autoRedraw, whatever the flag.
renderLoop_OverlooksDirty(s, moved) ==
    LET a == IF s.attached
             THEN LET b == updateSize(s)
                      c == IF b.autoRedraw THEN drawScene(b) ELSE b
                  IN controlsUpdate(c, moved)
             ELSE s
    IN [a EXCEPT !.rafQueue = Append(@, "loop")]

renderLoop(s, moved) ==
    LET a == IF s.attached
             THEN LET b == updateSize(s)
                      c == IF b.dirty \/ b.autoRedraw THEN drawScene(b) ELSE b
                  IN controlsUpdate(c, moved)
             ELSE s
    IN [a EXCEPT !.rafQueue = Append(@, "loop")]

(***************************************************************************)
(* Load orchestration                                                      *)
(***************************************************************************)
\* `${this.package}|${this.urdf}`
Key(pkg, urdf) == pkg \o <<"|">> \o urdf

\* robot.traverse(c => c.dispose && c.dispose())
disposeTraversal(s, m) == Log([s EXCEPT !.disposed = @ \cup {m}], "dispose")

\* The part of _scheduleLoad that unmounts the current model.
unmountRobot(s) ==
    IF s.robot # NoRobot
    THEN LET a == disposeTraversal(s, s.robot)
         IN [a EXCEPT !.worldChildren = @ \ {s.robot}, !.robot = NoRobot]
    ELSE s

\* _scheduleLoad without its test of _prevload.
_scheduleLoad_NoPairTest(s) ==
    LET a == [s EXCEPT !.prevload = Key(s.pkgAttr, s.urdfAttr)]
    IN IF a.loadScheduled THEN a
       ELSE LET b == unmountRobot([a EXCEPT !.loadScheduled = TRUE])
            IN [b EXCEPT !.rafQueue = Append(@, "load")]

_scheduleLoad(s) ==
    LET key == Key(s.pkgAttr, s.urdfAttr)
    IN IF s.prevload = key THEN s
       ELSE LET a == [s EXCEPT !.prevload = key]
            IN IF a.loadScheduled THEN a
               ELSE LET b == unmountRobot([a EXCEPT !.loadScheduled = TRUE])
                    IN [b EXCEPT !.rafQueue = Append(@, "load")]

\* str.split(sep), for a separator of one character
RECURSIVE split(_, _)
split(str, sep) ==
    IF Occurs(sep, str)
    THEN LET i == FirstAt(sep, str)
         IN <<SubSeq(str, 1, i - 1)>> \o split(SubSeq(str, i + 1, Len(str)), sep)
    ELSE <<str>>

\* parts.join(sep)
RECURSIVE join(_, _)
join(parts, sep) ==
    IF parts = <<>> THEN <<>>
    ELSE IF Len(parts) = 1 THEN parts[1]
    ELSE parts[1] \o <<sep>> \o join(Tail(parts), sep)

\* The characters str.trim() strips: the white space (U+0009, U+000B,
\* U+000C, U+0020, U+00A0, U+FEFF and the space separators U+1680,
\* U+2000 to U+200A, U+202F, U+205F, U+3000) and the line terminators
\* (U+000A, U+000D, U+2028, U+2029).  A character that cannot be written
\* in a string constant is written by its code point, as in "U+2028".
WhiteSpace ==
    {" ", "\t", "\n", "", "\f", "\r", " ", " ", "U+2000", "U+2001", "U+2002",
     "U+2003", "U+2004", "U+2005", "U+2006", "U+2007", "U+2008", "U+2009",
     "U+200A", "U+2028", "U+2029", "U+202F", "U+205F", "U+3000", "﻿"}

\* str.trim()
RECURSIVE trim(_)
trim(str) ==
    IF str # <<>> /\ Head(str) \in WhiteSpace THEN trim(Tail(str))
    ELSE IF str # <<>> /\ str[Len(str)] \in WhiteSpace
         THEN trim(SubSeq(str, 1, Len(str) - 1))
    ELSE str

\* str.substring(from, to)
substring(str, from, to) == SubSeq(str, from + 1, IF to < Len(str) THEN to ELSE Len(str))

\* The name whose assignment on a plain object goes to the prototype
\* setter, which ignores a string: map[name] = path stores no key.
ProtoName == <<"_", "_", "p", "r", "o", "t", "o", "_", "_">>

\* map[pkgName] = pkgPath
assignKey(map, pkgName, pkgPath) ==
    IF pkgName = ProtoName THEN map
    ELSE {e \in map : e[1] # pkgName} \cup {<<pkgName, pkgPath>>}

\* The reduce of the package parsing: one name and path per comma segment,
\* a later segment replacing an earlier one of the same name.  A segment
\* with no non-empty part leaves split.shift() undefined, and .trim() of it
\* throws a TypeError.
RECURSIVE reducePackages(_, _)
reducePackages(values, map) ==
    IF values = <<>> THEN [thrown |-> FALSE, map |-> map]
    ELSE LET parts == SelectSeq(split(Head(values), ":"), LAMBDA x : x # <<>>)
         IN IF parts = <<>> THEN [thrown |-> TRUE, map |-> map]
            ELSE reducePackages(Tail(values),
                     assignKey(map, trim(Head(parts)), trim(join(Tail(parts), ":"))))

\* The package parsing of _loadUrdf.
parsePackages(pkg) ==
    IF Occurs(":", pkg) /\ substring(split(pkg, ":")[2], 0, 2) # <<"/", "/">>
    THEN LET r == reducePackages(split(pkg, ","), {})
         IN [thrown |-> r.thrown, packages |-> PackageMap(r.map)]
    ELSE [thrown |-> FALSE, packages |-> PackagePath(pkg)]

\* The body of _loadUrdf up to the call of loader.load.  An exception of
\* the package parsing rejects the promise of this async function: the
\* counter has been incremented and loader.load is not called.
_loadUrdf(s, pkg, urdf) ==
    LET a == Log(s, "urdf-change")
    IN IF urdf # <<>>
       THEN LET id == a.requestId + 1
                b == [a EXCEPT !.requestId = id]
                parsed == parsePackages(pkg)
            IN IF parsed.thrown
               THEN [Log(b, "TypeError") EXCEPT
                       !.imports[id] = [phase |-> "aborted", pkg |-> pkg, urdf |-> urdf,
                                        packages |-> NoImport.packages]]
               ELSE [Log(b, "import") EXCEPT
                       !.imports[id] = [phase |-> "loading", pkg |-> pkg, urdf |-> urdf,
                                        packages |-> parsed.packages]]
       ELSE a

\* The animation-frame callback registered by _scheduleLoad.
loadCallback(s) ==
    [_loadUrdf(s, s.pkgAttr, s.urdfAttr) EXCEPT !.loadScheduled = FALSE]

\* The joint node's value-setting policy: the value a joint takes when it
\* is asked to take v, clamped to the limits unless the joint ignores them.
Clamp(v) ==
    IF v < LowerLimit THEN LowerLimit
    ELSE IF v > UpperLimit THEN UpperLimit
    ELSE v

JointPolicy(ignore, v) == IF ignore THEN v ELSE Clamp(v)

\* _setIgnoreLimits applying the value of a parsed joint, not c.jointValue.
_setIgnoreLimits_AppliesParsedValue(s, ignore, noRecenter) ==
    IF s.robot = NoRobot THEN s
    ELSE LET a == [s EXCEPT
                     !.jointIgnore[s.robot] = [j \in JointNames |-> ignore],
                     !.jointValue[s.robot] =
                         [j \in JointNames |-> JointPolicy(ignore, ParsedJointValue)]]
         IN IF ~noRecenter THEN recenter(a) ELSE a

_setIgnoreLimits(s, ignore, noRecenter) ==
    IF s.robot = NoRobot THEN s
    ELSE LET a == [s EXCEPT
                     !.jointIgnore[s.robot] = [j \in JointNames |-> ignore],
                     !.jointValue[s.robot] =
                         [j \in JointNames |-> JointPolicy(ignore, s.jointValue[s.robot][j])]]
         IN IF ~noRecenter THEN recenter(a) ELSE a

\* _updateCollisionVisibility showing the colliders and never hiding them.
_updateCollisionVisibility_NeverHides(s) ==
    IF s.robot = NoRobot THEN s
    ELSE [s EXCEPT !.colliderVisible[s.robot] =
                       IF s.showCollision THEN ColliderNames ELSE @]

_updateCollisionVisibility(s) ==
    IF s.robot = NoRobot THEN s
    ELSE [s EXCEPT !.colliderVisible[s.robot] =
                       IF s.showCollision THEN ColliderNames ELSE {}]

\* str.toUpperCase(): the upper case of every character that has one
\* (Unicode 17 default case conversion; some are several characters long),
\* each character written as in WhiteSpace.
CaseMappings ==
    {<<"a", <<"A">>>>, <<"b", <<"B">>>>, <<"c", <<"C">>>>, <<"d", <<"D">>>>,
     <<"e", <<"E">>>>, <<"f", <<"F">>>>, <<"g", <<"G">>>>, <<"h", <<"H">>>>,
     <<"i", <<"I">>>>, <<"j", <<"J">>>>, <<"k", <<"K">>>>, <<"l", <<"L">>>>,
     <<"m", <<"M">>>>, <<"n", <<"N">>>>, <<"o", <<"O">>>>, <<"p", <<"P">>>>,
     <<"q", <<"Q">>>>, <<"r", <<"R">>>>, <<"s", <<"S">>>>, <<"t", <<"T">>>>,
     <<"u", <<"U">>>>, <<"v", <<"V">>>>, <<"w", <<"W">>>>, <<"x", <<"X">>>>,
     <<"y", <<"Y">>>>, <<"z", <<"Z">>>>, <<"µ", <<"Μ">>>>,
     <<"ß", <<"S", "S">>>>, <<"à", <<"À">>>>, <<"á", <<"Á">>>>,
     <<"â", <<"Â">>>>, <<"ã", <<"Ã">>>>, <<"ä", <<"Ä">>>>, <<"å", <<"Å">>>>,
     <<"æ", <<"Æ">>>>, <<"ç", <<"Ç">>>>, <<"è", <<"È">>>>, <<"é", <<"É">>>>,
     <<"ê", <<"Ê">>>>, <<"ë", <<"Ë">>>>, <<"ì", <<"Ì">>>>, <<"í", <<"Í">>>>,
     <<"î", <<"Î">>>>, <<"ï", <<"Ï">>>>, <<"ð", <<"Ð">>>>, <<"ñ", <<"Ñ">>>>,
     <<"ò", <<"Ò">>>>, <<"ó", <<"Ó">>>>, <<"ô", <<"Ô">>>>, <<"õ", <<"Õ">>>>,
     <<"ö", <<"Ö">>>>, <<"ø", <<"Ø">>>>, <<"ù", <<"Ù">>>>, <<"ú", <<"Ú">>>>,
     <<"û", <<"Û">>>>, <<"ü", <<"Ü">>>>, <<"ý", <<"Ý">>>>, <<"þ", <<"Þ">>>>,
     <<"ÿ", <<"U+0178">>>>, <<"U+0101", <<"U+0100">>>>,
     <<"U+0103", <<"U+0102">>>>, <<"U+0105", <<"U+0104">>>>,
     <<"U+0107", <<"U+0106">>>>, <<"U+0109", <<"U+0108">>>>,
     <<"U+010B", <<"U+010A">>>>, <<"U+010D", <<"U+010C">>>>,
     <<"U+010F", <<"U+010E">>>>, <<"U+0111", <<"U+0110">>>>,
     <<"U+0113", <<"U+0112">>>>, <<"U+0115", <<"U+0114">>>>,
     <<"U+0117", <<"U+0116">>>>, <<"U+0119", <<"U+0118">>>>,
     <<"U+011B", <<"U+011A">>>>, <<"U+011D", <<"U+011C">>>>,
     <<"U+011F", <<"U+011E">>>>, <<"U+0121", <<"U+0120">>>>,
     <<"U+0123", <<"U+0122">>>>, <<"U+0125", <<"U+0124">>>>,
     <<"U+0127", <<"U+0126">>>>, <<"U+0129", <<"U+0128">>>>,
     <<"U+012B", <<"U+012A">>>>, <<"U+012D", <<"U+012C">>>>,
     <<"U+012F", <<"U+012E">>>>, <<"U+0131", <<"I">>>>,
     <<"U+0133", <<"U+0132">>>>, <<"U+0135", <<"U+0134">>>>,
     <<"U+0137", <<"U+0136">>>>, <<"U+013A", <<"U+0139">>>>,
     <<"U+013C", <<"U+013B">>>>, <<"U+013E", <<"U+013D">>>>,
     <<"U+0140", <<"U+013F">>>>, <<"U+0142", <<"U+0141">>>>,
     <<"U+0144", <<"U+0143">>>>, <<"U+0146", <<"U+0145">>>>,
     <<"U+0148", <<"U+0147">>>>, <<"U+0149", <<"ʼ", "N">>>>,
     <<"U+014B", <<"U+014A">>>>, <<"U+014D", <<"U+014C">>>>,
     <<"U+014F", <<"U+014E">>>>, <<"U+0151", <<"U+0150">>>>,
     <<"U+0153", <<"U+0152">>>>, <<"U+0155", <<"U+0154">>>>,
     <<"U+0157", <<"U+0156">>>>, <<"U+0159", <<"U+0158">>>>,
     <<"U+015B", <<"U+015A">>>>, <<"U+015D", <<"U+015C">>>>,
     <<"U+015F", <<"U+015E">>>>, <<"U+0161", <<"U+0160">>>>,
     <<"U+0163", <<"U+0162">>>>, <<"U+0165", <<"U+0164">>>>,
     <<"U+0167", <<"U+0166">>>>, <<"U+0169", <<"U+0168">>>>,
     <<"U+016B", <<"U+016A">>>>, <<"U+016D", <<"U+016C">>>>,
     <<"U+016F", <<"U+016E">>>>, <<"U+0171", <<"U+0170">>>>,
     <<"U+0173", <<"U+0172">>>>, <<"U+0175", <<"U+0174">>>>,
     <<"U+0177", <<"U+0176">>>>, <<"U+017A", <<"U+0179">>>>,
     <<"U+017C", <<"U+017B">>>>, <<"U+017E", <<"U+017D">>>>,
     <<"U+017F", <<"S">>>>, <<"ƀ", <<"U+0243">>>>, <<"ƃ", <<"Ƃ">>>>,
     <<"ƅ", <<"Ƅ">>>>, <<"ƈ", <<"Ƈ">>>>, <<"ƌ", <<"Ƌ">>>>, <<"ƒ", <<"Ƒ">>>>,
     <<"ƕ", <<"Ƕ">>>>, <<"ƙ", <<"Ƙ">>>>, <<"ƚ", <<"U+023D">>>>,
     <<"ƛ", <<"Ƛ">>>>, <<"ƞ", <<"U+0220">>>>, <<"ơ", <<"Ơ">>>>,
     <<"ƣ", <<"Ƣ">>>>, <<"ƥ", <<"Ƥ">>>>, <<"ƨ", <<"Ƨ">>>>, <<"ƭ", <<"Ƭ">>>>,
     <<"ư", <<"Ư">>>>, <<"ƴ", <<"Ƴ">>>>, <<"ƶ", <<"Ƶ">>>>, <<"ƹ", <<"Ƹ">>>>,
     <<"ƽ", <<"Ƽ">>>>, <<"ƿ", <<"Ƿ">>>>, <<"ǅ", <<"Ǆ">>>>, <<"ǆ", <<"Ǆ">>>>,
     <<"ǈ", <<"Ǉ">>>>, <<"ǉ", <<"Ǉ">>>>, <<"ǋ", <<"Ǌ">>>>, <<"ǌ", <<"Ǌ">>>>,
     <<"ǎ", <<"Ǎ">>>>, <<"ǐ", <<"Ǐ">>>>, <<"ǒ", <<"Ǒ">>>>, <<"ǔ", <<"Ǔ">>>>,
     <<"ǖ", <<"Ǖ">>>>, <<"ǘ", <<"Ǘ">>>>, <<"ǚ", <<"Ǚ">>>>, <<"ǜ", <<"Ǜ">>>>,
     <<"ǝ", <<"Ǝ">>>>, <<"ǟ", <<"Ǟ">>>>, <<"ǡ", <<"Ǡ">>>>, <<"ǣ", <<"Ǣ">>>>,
     <<"ǥ", <<"Ǥ">>>>, <<"ǧ", <<"Ǧ">>>>, <<"ǩ", <<"Ǩ">>>>, <<"ǫ", <<"Ǫ">>>>,
     <<"ǭ", <<"Ǭ">>>>, <<"ǯ", <<"Ǯ">>>>, <<"ǰ", <<"J", "U+030C">>>>,
     <<"ǲ", <<"Ǳ">>>>, <<"ǳ", <<"Ǳ">>>>, <<"ǵ", <<"Ǵ">>>>, <<"ǹ", <<"Ǹ">>>>,
     <<"ǻ", <<"Ǻ">>>>, <<"ǽ", <<"Ǽ">>>>, <<"ǿ", <<"Ǿ">>>>,
     <<"U+0201", <<"U+0200">>>>, <<"U+0203", <<"U+0202">>>>,
     <<"U+0205", <<"U+0204">>>>, <<"U+0207", <<"U+0206">>>>,
     <<"U+0209", <<"U+0208">>>>, <<"U+020B", <<"U+020A">>>>,
     <<"U+020D", <<"U+020C">>>>, <<"U+020F", <<"U+020E">>>>,
     <<"U+0211", <<"U+0210">>>>, <<"U+0213", <<"U+0212">>>>,
     <<"U+0215", <<"U+0214">>>>, <<"U+0217", <<"U+0216">>>>,
     <<"U+0219", <<"U+0218">>>>, <<"U+021B", <<"U+021A">>>>,
     <<"U+021D", <<"U+021C">>>>, <<"U+021F", <<"U+021E">>>>,
     <<"U+0223", <<"U+0222">>>>, <<"U+0225", <<"U+0224">>>>,
     <<"U+0227", <<"U+0226">>>>, <<"U+0229", <<"U+0228">>>>,
     <<"U+022B", <<"U+022A">>>>, <<"U+022D", <<"U+022C">>>>,
     <<"U+022F", <<"U+022E">>>>, <<"U+0231", <<"U+0230">>>>,
     <<"U+0233", <<"U+0232">>>>, <<"U+023C", <<"U+023B">>>>,
     <<"U+023F", <<"U+2C7E">>>>, <<"U+0240", <<"U+2C7F">>>>,
     <<"U+0242", <<"U+0241">>>>, <<"U+0247", <<"U+0246">>>>,
     <<"U+0249", <<"U+0248">>>>, <<"U+024B", <<"U+024A">>>>,
     <<"U+024D", <<"U+024C">>>>, <<"U+024F", <<"U+024E">>>>,
     <<"U+0250", <<"U+2C6F">>>>, <<"U+0251", <<"U+2C6D">>>>,
     <<"U+0252", <<"U+2C70">>>>, <<"U+0253", <<"Ɓ">>>>, <<"U+0254", <<"Ɔ">>>>,
     <<"U+0256", <<"Ɖ">>>>, <<"U+0257", <<"Ɗ">>>>, <<"U+0259", <<"Ə">>>>,
     <<"U+025B", <<"Ɛ">>>>, <<"U+025C", <<"Ɜ">>>>, <<"U+0260", <<"Ɠ">>>>,
     <<"U+0261", <<"Ɡ">>>>, <<"U+0263", <<"Ɣ">>>>, <<"U+0264", <<"Ɤ">>>>,
     <<"U+0265", <<"Ɥ">>>>, <<"U+0266", <<"Ɦ">>>>, <<"U+0268", <<"Ɨ">>>>,
     <<"U+0269", <<"Ɩ">>>>, <<"U+026A", <<"Ɪ">>>>, <<"U+026B", <<"U+2C62">>>>,
     <<"U+026C", <<"Ɬ">>>>, <<"U+026F", <<"Ɯ">>>>, <<"U+0271", <<"U+2C6E">>>>,
     <<"U+0272", <<"Ɲ">>>>, <<"U+0275", <<"Ɵ">>>>, <<"U+027D", <<"U+2C64">>>>,
     <<"ʀ", <<"Ʀ">>>>, <<"ʂ", <<"Ʂ">>>>, <<"ʃ", <<"Ʃ">>>>, <<"ʇ", <<"Ʇ">>>>,
     <<"ʈ", <<"Ʈ">>>>, <<"ʉ", <<"U+0244">>>>, <<"ʊ", <<"Ʊ">>>>,
     <<"ʋ", <<"Ʋ">>>>, <<"ʌ", <<"U+0245">>>>, <<"ʒ", <<"Ʒ">>>>,
     <<"ʝ", <<"Ʝ">>>>, <<"ʞ", <<"Ʞ">>>>, <<"U+0345", <<"Ι">>>>,
     <<"U+0371", <<"U+0370">>>>, <<"U+0373", <<"U+0372">>>>,
     <<"U+0377", <<"U+0376">>>>, <<"U+037B", <<"Ͻ">>>>, <<"U+037C", <<"Ͼ">>>>,
     <<"U+037D", <<"Ͽ">>>>, <<"ΐ", <<"Ι", "U+0308", "U+0301">>>>,
     <<"ά", <<"Ά">>>>, <<"έ", <<"Έ">>>>, <<"ή", <<"Ή">>>>, <<"ί", <<"Ί">>>>,
     <<"ΰ", <<"Υ", "U+0308", "U+0301">>>>, <<"α", <<"Α">>>>, <<"β", <<"Β">>>>,
     <<"γ", <<"Γ">>>>, <<"δ", <<"Δ">>>>, <<"ε", <<"Ε">>>>, <<"ζ", <<"Ζ">>>>,
     <<"η", <<"Η">>>>, <<"θ", <<"Θ">>>>, <<"ι", <<"Ι">>>>, <<"κ", <<"Κ">>>>,
     <<"λ", <<"Λ">>>>, <<"μ", <<"Μ">>>>, <<"ν", <<"Ν">>>>, <<"ξ", <<"Ξ">>>>,
     <<"ο", <<"Ο">>>>, <<"π", <<"Π">>>>, <<"ρ", <<"Ρ">>>>, <<"ς", <<"Σ">>>>,
     <<"σ", <<"Σ">>>>, <<"τ", <<"Τ">>>>, <<"υ", <<"Υ">>>>, <<"φ", <<"Φ">>>>,
     <<"χ", <<"Χ">>>>, <<"ψ", <<"Ψ">>>>, <<"ω", <<"Ω">>>>, <<"ϊ", <<"Ϊ">>>>,
     <<"ϋ", <<"Ϋ">>>>, <<"ό", <<"Ό">>>>, <<"ύ", <<"Ύ">>>>, <<"ώ", <<"Ώ">>>>,
     <<"ϐ", <<"Β">>>>, <<"ϑ", <<"Θ">>>>, <<"ϕ", <<"Φ">>>>, <<"ϖ", <<"Π">>>>,
     <<"ϗ", <<"Ϗ">>>>, <<"ϙ", <<"Ϙ">>>>, <<"ϛ", <<"Ϛ">>>>, <<"ϝ", <<"Ϝ">>>>,
     <<"ϟ", <<"Ϟ">>>>, <<"ϡ", <<"Ϡ">>>>, <<"ϣ", <<"Ϣ">>>>, <<"ϥ", <<"Ϥ">>>>,
     <<"ϧ", <<"Ϧ">>>>, <<"ϩ", <<"Ϩ">>>>, <<"ϫ", <<"Ϫ">>>>, <<"ϭ", <<"Ϭ">>>>,
     <<"ϯ", <<"Ϯ">>>>, <<"ϰ", <<"Κ">>>>, <<"ϱ", <<"Ρ">>>>, <<"ϲ", <<"Ϲ">>>>,
     <<"ϳ", <<"U+037F">>>>, <<"ϵ", <<"Ε">>>>, <<"ϸ", <<"Ϸ">>>>,
     <<"ϻ", <<"Ϻ">>>>, <<"U+0430", <<"U+0410">>>>, <<"U+0431", <<"U+0411">>>>,
     <<"U+0432", <<"U+0412">>>>, <<"U+0433", <<"U+0413">>>>,
     <<"U+0434", <<"U+0414">>>>, <<"U+0435", <<"U+0415">>>>,
     <<"U+0436", <<"U+0416">>>>, <<"U+0437", <<"U+0417">>>>,
     <<"U+0438", <<"U+0418">>>>, <<"U+0439", <<"U+0419">>>>,
     <<"U+043A", <<"U+041A">>>>, <<"U+043B", <<"U+041B">>>>,
     <<"U+043C", <<"U+041C">>>>, <<"U+043D", <<"U+041D">>>>,
     <<"U+043E", <<"U+041E">>>>, <<"U+043F", <<"U+041F">>>>,
     <<"U+0440", <<"U+0420">>>>, <<"U+0441", <<"U+0421">>>>,
     <<"U+0442", <<"U+0422">>>>, <<"U+0443", <<"U+0423">>>>,
     <<"U+0444", <<"U+0424">>>>, <<"U+0445", <<"U+0425">>>>,
     <<"U+0446", <<"U+0426">>>>, <<"U+0447", <<"U+0427">>>>,
     <<"U+0448", <<"U+0428">>>>, <<"U+0449", <<"U+0429">>>>,
     <<"U+044A", <<"U+042A">>>>, <<"U+044B", <<"U+042B">>>>,
     <<"U+044C", <<"U+042C">>>>, <<"U+044D", <<"U+042D">>>>,
     <<"U+044E", <<"U+042E">>>>, <<"U+044F", <<"U+042F">>>>,
     <<"U+0450", <<"U+0400">>>>, <<"U+0451", <<"U+0401">>>>,
     <<"U+0452", <<"U+0402">>>>, <<"U+0453", <<"U+0403">>>>,
     <<"U+0454", <<"U+0404">>>>, <<"U+0455", <<"U+0405">>>>,
     <<"U+0456", <<"U+0406">>>>, <<"U+0457", <<"U+0407">>>>,
     <<"U+0458", <<"U+0408">>>>, <<"U+0459", <<"U+0409">>>>,
     <<"U+045A", <<"U+040A">>>>, <<"U+045B", <<"U+040B">>>>,
     <<"U+045C", <<"U+040C">>>>, <<"U+045D", <<"U+040D">>>>,
     <<"U+045E", <<"U+040E">>>>, <<"U+045F", <<"U+040F">>>>,
     <<"U+0461", <<"U+0460">>>>, <<"U+0463", <<"U+0462">>>>,
     <<"U+0465", <<"U+0464">>>>, <<"U+0467", <<"U+0466">>>>,
     <<"U+0469", <<"U+0468">>>>, <<"U+046B", <<"U+046A">>>>,
     <<"U+046D", <<"U+046C">>>>, <<"U+046F", <<"U+046E">>>>,
     <<"U+0471", <<"U+0470">>>>, <<"U+0473", <<"U+0472">>>>,
     <<"U+0475", <<"U+0474">>>>, <<"U+0477", <<"U+0476">>>>,
     <<"U+0479", <<"U+0478">>>>, <<"U+047B", <<"U+047A">>>>,
     <<"U+047D", <<"U+047C">>>>, <<"U+047F", <<"U+047E">>>>, <<"ҁ", <<"Ҁ">>>>,
     <<"ҋ", <<"Ҋ">>>>, <<"ҍ", <<"Ҍ">>>>, <<"ҏ", <<"Ҏ">>>>, <<"ґ", <<"Ґ">>>>,
     <<"ғ", <<"Ғ">>>>, <<"ҕ", <<"Ҕ">>>>, <<"җ", <<"Җ">>>>, <<"ҙ", <<"Ҙ">>>>,
     <<"қ", <<"Қ">>>>, <<"ҝ", <<"Ҝ">>>>, <<"ҟ", <<"Ҟ">>>>, <<"ҡ", <<"Ҡ">>>>,
     <<"ң", <<"Ң">>>>, <<"ҥ", <<"Ҥ">>>>, <<"ҧ", <<"Ҧ">>>>, <<"ҩ", <<"Ҩ">>>>,
     <<"ҫ", <<"Ҫ">>>>, <<"ҭ", <<"Ҭ">>>>, <<"ү", <<"Ү">>>>, <<"ұ", <<"Ұ">>>>,
     <<"ҳ", <<"Ҳ">>>>, <<"ҵ", <<"Ҵ">>>>, <<"ҷ", <<"Ҷ">>>>, <<"ҹ", <<"Ҹ">>>>,
     <<"һ", <<"Һ">>>>, <<"ҽ", <<"Ҽ">>>>, <<"ҿ", <<"Ҿ">>>>, <<"ӂ", <<"Ӂ">>>>,
     <<"ӄ", <<"Ӄ">>>>, <<"ӆ", <<"Ӆ">>>>, <<"ӈ", <<"Ӈ">>>>, <<"ӊ", <<"Ӊ">>>>,
     <<"ӌ", <<"Ӌ">>>>, <<"ӎ", <<"Ӎ">>>>, <<"ӏ", <<"Ӏ">>>>, <<"ӑ", <<"Ӑ">>>>,
     <<"ӓ", <<"Ӓ">>>>, <<"ӕ", <<"Ӕ">>>>, <<"ӗ", <<"Ӗ">>>>, <<"ә", <<"Ә">>>>,
     <<"ӛ", <<"Ӛ">>>>, <<"ӝ", <<"Ӝ">>>>, <<"ӟ", <<"Ӟ">>>>, <<"ӡ", <<"Ӡ">>>>,
     <<"ӣ", <<"Ӣ">>>>, <<"ӥ", <<"Ӥ">>>>, <<"ӧ", <<"Ӧ">>>>, <<"ө", <<"Ө">>>>,
     <<"ӫ", <<"Ӫ">>>>, <<"ӭ", <<"Ӭ">>>>, <<"ӯ", <<"Ӯ">>>>, <<"ӱ", <<"Ӱ">>>>,
     <<"ӳ", <<"Ӳ">>>>, <<"ӵ", <<"Ӵ">>>>, <<"ӷ", <<"Ӷ">>>>, <<"ӹ", <<"Ӹ">>>>,
     <<"ӻ", <<"Ӻ">>>>, <<"ӽ", <<"Ӽ">>>>, <<"ӿ", <<"Ӿ">>>>,
     <<"U+0501", <<"U+0500">>>>, <<"U+0503", <<"U+0502">>>>,
     <<"U+0505", <<"U+0504">>>>, <<"U+0507", <<"U+0506">>>>,
     <<"U+0509", <<"U+0508">>>>, <<"U+050B", <<"U+050A">>>>,
     <<"U+050D", <<"U+050C">>>>, <<"U+050F", <<"U+050E">>>>,
     <<"U+0511", <<"U+0510">>>>, <<"U+0513", <<"U+0512">>>>,
     <<"U+0515", <<"U+0514">>>>, <<"U+0517", <<"U+0516">>>>,
     <<"U+0519", <<"U+0518">>>>, <<"U+051B", <<"U+051A">>>>,
     <<"U+051D", <<"U+051C">>>>, <<"U+051F", <<"U+051E">>>>,
     <<"U+0521", <<"U+0520">>>>, <<"U+0523", <<"U+0522">>>>,
     <<"U+0525", <<"U+0524">>>>, <<"U+0527", <<"U+0526">>>>,
     <<"U+0529", <<"U+0528">>>>, <<"U+052B", <<"U+052A">>>>,
     <<"U+052D", <<"U+052C">>>>, <<"U+052F", <<"U+052E">>>>,
     <<"U+0561", <<"U+0531">>>>, <<"U+0562", <<"U+0532">>>>,
     <<"U+0563", <<"U+0533">>>>, <<"U+0564", <<"U+0534">>>>,
     <<"U+0565", <<"U+0535">>>>, <<"U+0566", <<"U+0536">>>>,
     <<"U+0567", <<"U+0537">>>>, <<"U+0568", <<"U+0538">>>>,
     <<"U+0569", <<"U+0539">>>>, <<"U+056A", <<"U+053A">>>>,
     <<"U+056B", <<"U+053B">>>>, <<"U+056C", <<"U+053C">>>>,
     <<"U+056D", <<"U+053D">>>>, <<"U+056E", <<"U+053E">>>>,
     <<"U+056F", <<"U+053F">>>>, <<"U+0570", <<"U+0540">>>>,
     <<"U+0571", <<"U+0541">>>>, <<"U+0572", <<"U+0542">>>>,
     <<"U+0573", <<"U+0543">>>>, <<"U+0574", <<"U+0544">>>>,
     <<"U+0575", <<"U+0545">>>>, <<"U+0576", <<"U+0546">>>>,
     <<"U+0577", <<"U+0547">>>>, <<"U+0578", <<"U+0548">>>>,
     <<"U+0579", <<"U+0549">>>>, <<"U+057A", <<"U+054A">>>>,
     <<"U+057B", <<"U+054B">>>>, <<"U+057C", <<"U+054C">>>>,
     <<"U+057D", <<"U+054D">>>>, <<"U+057E", <<"U+054E">>>>,
     <<"U+057F", <<"U+054F">>>>, <<"ր", <<"U+0550">>>>, <<"ց", <<"U+0551">>>>,
     <<"ւ", <<"U+0552">>>>, <<"փ", <<"U+0553">>>>, <<"ք", <<"U+0554">>>>,
     <<"օ", <<"U+0555">>>>, <<"ֆ", <<"U+0556">>>>,
     <<"և", <<"U+0535", "U+0552">>>>, <<"ა", <<"Ა">>>>, <<"ბ", <<"Ბ">>>>,
     <<"გ", <<"Გ">>>>, <<"დ", <<"Დ">>>>, <<"ე", <<"Ე">>>>, <<"ვ", <<"Ვ">>>>,
     <<"ზ", <<"Ზ">>>>, <<"თ", <<"Თ">>>>, <<"ი", <<"Ი">>>>, <<"კ", <<"Კ">>>>,
     <<"ლ", <<"Ლ">>>>, <<"მ", <<"Მ">>>>, <<"ნ", <<"Ნ">>>>, <<"ო", <<"Ო">>>>,
     <<"პ", <<"Პ">>>>, <<"ჟ", <<"Ჟ">>>>, <<"რ", <<"Რ">>>>, <<"ს", <<"Ს">>>>,
     <<"ტ", <<"Ტ">>>>, <<"უ", <<"Უ">>>>, <<"ფ", <<"Ფ">>>>, <<"ქ", <<"Ქ">>>>,
     <<"ღ", <<"Ღ">>>>, <<"ყ", <<"Ყ">>>>, <<"შ", <<"Შ">>>>, <<"ჩ", <<"Ჩ">>>>,
     <<"ც", <<"Ც">>>>, <<"ძ", <<"Ძ">>>>, <<"წ", <<"Წ">>>>, <<"ჭ", <<"Ჭ">>>>,
     <<"ხ", <<"Ხ">>>>, <<"ჯ", <<"Ჯ">>>>, <<"ჰ", <<"Ჰ">>>>, <<"ჱ", <<"Ჱ">>>>,
     <<"ჲ", <<"Ჲ">>>>, <<"ჳ", <<"Ჳ">>>>, <<"ჴ", <<"Ჴ">>>>, <<"ჵ", <<"Ჵ">>>>,
     <<"ჶ", <<"Ჶ">>>>, <<"ჷ", <<"Ჷ">>>>, <<"ჸ", <<"Ჸ">>>>, <<"ჹ", <<"Ჹ">>>>,
     <<"ჺ", <<"Ჺ">>>>, <<"ჽ", <<"Ჽ">>>>, <<"ჾ", <<"Ჾ">>>>, <<"ჿ", <<"Ჿ">>>>,
     <<"ᏸ", <<"Ᏸ">>>>, <<"ᏹ", <<"Ᏹ">>>>, <<"ᏺ", <<"Ᏺ">>>>, <<"ᏻ", <<"Ᏻ">>>>,
     <<"ᏼ", <<"Ᏼ">>>>, <<"ᏽ", <<"Ᏽ">>>>, <<"ᲀ", <<"U+0412">>>>,
     <<"ᲁ", <<"U+0414">>>>, <<"ᲂ", <<"U+041E">>>>, <<"ᲃ", <<"U+0421">>>>,
     <<"ᲄ", <<"U+0422">>>>, <<"ᲅ", <<"U+0422">>>>, <<"ᲆ", <<"U+042A">>>>,
     <<"ᲇ", <<"U+0462">>>>, <<"ᲈ", <<"U+A64A">>>>, <<"ᲊ", <<"Ᲊ">>>>,
     <<"U+1D79", <<"U+A77D">>>>, <<"U+1D7D", <<"U+2C63">>>>, <<"ᶎ", <<"Ᶎ">>>>,
     <<"U+1E01", <<"U+1E00">>>>, <<"U+1E03", <<"U+1E02">>>>,
     <<"U+1E05", <<"U+1E04">>>>, <<"U+1E07", <<"U+1E06">>>>,
     <<"U+1E09", <<"U+1E08">>>>, <<"U+1E0B", <<"U+1E0A">>>>,
     <<"U+1E0D", <<"U+1E0C">>>>, <<"U+1E0F", <<"U+1E0E">>>>,
     <<"U+1E11", <<"U+1E10">>>>, <<"U+1E13", <<"U+1E12">>>>,
     <<"U+1E15", <<"U+1E14">>>>, <<"U+1E17", <<"U+1E16">>>>,
     <<"U+1E19", <<"U+1E18">>>>, <<"U+1E1B", <<"U+1E1A">>>>,
     <<"U+1E1D", <<"U+1E1C">>>>, <<"U+1E1F", <<"U+1E1E">>>>,
     <<"U+1E21", <<"U+1E20">>>>, <<"U+1E23", <<"U+1E22">>>>,
     <<"U+1E25", <<"U+1E24">>>>, <<"U+1E27", <<"U+1E26">>>>,
     <<"U+1E29", <<"U+1E28">>>>, <<"U+1E2B", <<"U+1E2A">>>>,
     <<"U+1E2D", <<"U+1E2C">>>>, <<"U+1E2F", <<"U+1E2E">>>>,
     <<"U+1E31", <<"U+1E30">>>>, <<"U+1E33", <<"U+1E32">>>>,
     <<"U+1E35", <<"U+1E34">>>>, <<"U+1E37", <<"U+1E36">>>>,
     <<"U+1E39", <<"U+1E38">>>>, <<"U+1E3B", <<"U+1E3A">>>>,
     <<"U+1E3D", <<"U+1E3C">>>>, <<"U+1E3F", <<"U+1E3E">>>>,
     <<"U+1E41", <<"U+1E40">>>>, <<"U+1E43", <<"U+1E42">>>>,
     <<"U+1E45", <<"U+1E44">>>>, <<"U+1E47", <<"U+1E46">>>>,
     <<"U+1E49", <<"U+1E48">>>>, <<"U+1E4B", <<"U+1E4A">>>>,
     <<"U+1E4D", <<"U+1E4C">>>>, <<"U+1E4F", <<"U+1E4E">>>>,
     <<"U+1E51", <<"U+1E50">>>>, <<"U+1E53", <<"U+1E52">>>>,
     <<"U+1E55", <<"U+1E54">>>>, <<"U+1E57", <<"U+1E56">>>>,
     <<"U+1E59", <<"U+1E58">>>>, <<"U+1E5B", <<"U+1E5A">>>>,
     <<"U+1E5D", <<"U+1E5C">>>>, <<"U+1E5F", <<"U+1E5E">>>>,
     <<"U+1E61", <<"U+1E60">>>>, <<"U+1E63", <<"U+1E62">>>>,
     <<"U+1E65", <<"U+1E64">>>>, <<"U+1E67", <<"U+1E66">>>>,
     <<"U+1E69", <<"U+1E68">>>>, <<"U+1E6B", <<"U+1E6A">>>>,
     <<"U+1E6D", <<"U+1E6C">>>>, <<"U+1E6F", <<"U+1E6E">>>>,
     <<"U+1E71", <<"U+1E70">>>>, <<"U+1E73", <<"U+1E72">>>>,
     <<"U+1E75", <<"U+1E74">>>>, <<"U+1E77", <<"U+1E76">>>>,
     <<"U+1E79", <<"U+1E78">>>>, <<"U+1E7B", <<"U+1E7A">>>>,
     <<"U+1E7D", <<"U+1E7C">>>>, <<"U+1E7F", <<"U+1E7E">>>>, <<"ẁ", <<"Ẁ">>>>,
     <<"ẃ", <<"Ẃ">>>>, <<"ẅ", <<"Ẅ">>>>, <<"ẇ", <<"Ẇ">>>>, <<"ẉ", <<"Ẉ">>>>,
     <<"ẋ", <<"Ẋ">>>>, <<"ẍ", <<"Ẍ">>>>, <<"ẏ", <<"Ẏ">>>>, <<"ẑ", <<"Ẑ">>>>,
     <<"ẓ", <<"Ẓ">>>>, <<"ẕ", <<"Ẕ">>>>, <<"ẖ", <<"H", "U+0331">>>>,
     <<"ẗ", <<"T", "U+0308">>>>, <<"ẘ", <<"W", "U+030A">>>>,
     <<"ẙ", <<"Y", "U+030A">>>>, <<"ẚ", <<"A", "ʾ">>>>, <<"ẛ", <<"U+1E60">>>>,
     <<"ạ", <<"Ạ">>>>, <<"ả", <<"Ả">>>>, <<"ấ", <<"Ấ">>>>, <<"ầ", <<"Ầ">>>>,
     <<"ẩ", <<"Ẩ">>>>, <<"ẫ", <<"Ẫ">>>>, <<"ậ", <<"Ậ">>>>, <<"ắ", <<"Ắ">>>>,
     <<"ằ", <<"Ằ">>>>, <<"ẳ", <<"Ẳ">>>>, <<"ẵ", <<"Ẵ">>>>, <<"ặ", <<"Ặ">>>>,
     <<"ẹ", <<"Ẹ">>>>, <<"ẻ", <<"Ẻ">>>>, <<"ẽ", <<"Ẽ">>>>, <<"ế", <<"Ế">>>>,
     <<"ề", <<"Ề">>>>, <<"ể", <<"Ể">>>>, <<"ễ", <<"Ễ">>>>, <<"ệ", <<"Ệ">>>>,
     <<"ỉ", <<"Ỉ">>>>, <<"ị", <<"Ị">>>>, <<"ọ", <<"Ọ">>>>, <<"ỏ", <<"Ỏ">>>>,
     <<"ố", <<"Ố">>>>, <<"ồ", <<"Ồ">>>>, <<"ổ", <<"Ổ">>>>, <<"ỗ", <<"Ỗ">>>>,
     <<"ộ", <<"Ộ">>>>, <<"ớ", <<"Ớ">>>>, <<"ờ", <<"Ờ">>>>, <<"ở", <<"Ở">>>>,
     <<"ỡ", <<"Ỡ">>>>, <<"ợ", <<"Ợ">>>>, <<"ụ", <<"Ụ">>>>, <<"ủ", <<"Ủ">>>>,
     <<"ứ", <<"Ứ">>>>, <<"ừ", <<"Ừ">>>>, <<"ử", <<"Ử">>>>, <<"ữ", <<"Ữ">>>>,
     <<"ự", <<"Ự">>>>, <<"ỳ", <<"Ỳ">>>>, <<"ỵ", <<"Ỵ">>>>, <<"ỷ", <<"Ỷ">>>>,
     <<"ỹ", <<"Ỹ">>>>, <<"ỻ", <<"Ỻ">>>>, <<"ỽ", <<"Ỽ">>>>, <<"ỿ", <<"Ỿ">>>>,
     <<"U+1F00", <<"U+1F08">>>>, <<"U+1F01", <<"U+1F09">>>>,
     <<"U+1F02", <<"U+1F0A">>>>, <<"U+1F03", <<"U+1F0B">>>>,
     <<"U+1F04", <<"U+1F0C">>>>, <<"U+1F05", <<"U+1F0D">>>>,
     <<"U+1F06", <<"U+1F0E">>>>, <<"U+1F07", <<"U+1F0F">>>>,
     <<"U+1F10", <<"U+1F18">>>>, <<"U+1F11", <<"U+1F19">>>>,
     <<"U+1F12", <<"U+1F1A">>>>, <<"U+1F13", <<"U+1F1B">>>>,
     <<"U+1F14", <<"U+1F1C">>>>, <<"U+1F15", <<"U+1F1D">>>>,
     <<"U+1F20", <<"U+1F28">>>>, <<"U+1F21", <<"U+1F29">>>>,
     <<"U+1F22", <<"U+1F2A">>>>, <<"U+1F23", <<"U+1F2B">>>>,
     <<"U+1F24", <<"U+1F2C">>>>, <<"U+1F25", <<"U+1F2D">>>>,
     <<"U+1F26", <<"U+1F2E">>>>, <<"U+1F27", <<"U+1F2F">>>>,
     <<"U+1F30", <<"U+1F38">>>>, <<"U+1F31", <<"U+1F39">>>>,
     <<"U+1F32", <<"U+1F3A">>>>, <<"U+1F33", <<"U+1F3B">>>>,
     <<"U+1F34", <<"U+1F3C">>>>, <<"U+1F35", <<"U+1F3D">>>>,
     <<"U+1F36", <<"U+1F3E">>>>, <<"U+1F37", <<"U+1F3F">>>>,
     <<"U+1F40", <<"U+1F48">>>>, <<"U+1F41", <<"U+1F49">>>>,
     <<"U+1F42", <<"U+1F4A">>>>, <<"U+1F43", <<"U+1F4B">>>>,
     <<"U+1F44", <<"U+1F4C">>>>, <<"U+1F45", <<"U+1F4D">>>>,
     <<"U+1F50", <<"Υ", "U+0313">>>>, <<"U+1F51", <<"U+1F59">>>>,
     <<"U+1F52", <<"Υ", "U+0313", "U+0300">>>>, <<"U+1F53", <<"U+1F5B">>>>,
     <<"U+1F54", <<"Υ", "U+0313", "U+0301">>>>, <<"U+1F55", <<"U+1F5D">>>>,
     <<"U+1F56", <<"Υ", "U+0313", "U+0342">>>>, <<"U+1F57", <<"U+1F5F">>>>,
     <<"U+1F60", <<"U+1F68">>>>, <<"U+1F61", <<"U+1F69">>>>,
     <<"U+1F62", <<"U+1F6A">>>>, <<"U+1F63", <<"U+1F6B">>>>,
     <<"U+1F64", <<"U+1F6C">>>>, <<"U+1F65", <<"U+1F6D">>>>,
     <<"U+1F66", <<"U+1F6E">>>>, <<"U+1F67", <<"U+1F6F">>>>,
     <<"U+1F70", <<"Ὰ">>>>, <<"U+1F71", <<"Ά">>>>, <<"U+1F72", <<"Ὲ">>>>,
     <<"U+1F73", <<"Έ">>>>, <<"U+1F74", <<"Ὴ">>>>, <<"U+1F75", <<"Ή">>>>,
     <<"U+1F76", <<"Ὶ">>>>, <<"U+1F77", <<"Ί">>>>, <<"U+1F78", <<"Ὸ">>>>,
     <<"U+1F79", <<"Ό">>>>, <<"U+1F7A", <<"Ὺ">>>>, <<"U+1F7B", <<"Ύ">>>>,
     <<"U+1F7C", <<"Ὼ">>>>, <<"U+1F7D", <<"Ώ">>>>, <<"ᾀ", <<"U+1F08", "Ι">>>>,
     <<"ᾁ", <<"U+1F09", "Ι">>>>, <<"ᾂ", <<"U+1F0A", "Ι">>>>,
     <<"ᾃ", <<"U+1F0B", "Ι">>>>, <<"ᾄ", <<"U+1F0C", "Ι">>>>,
     <<"ᾅ", <<"U+1F0D", "Ι">>>>, <<"ᾆ", <<"U+1F0E", "Ι">>>>,
     <<"ᾇ", <<"U+1F0F", "Ι">>>>, <<"ᾈ", <<"U+1F08", "Ι">>>>,
     <<"ᾉ", <<"U+1F09", "Ι">>>>, <<"ᾊ", <<"U+1F0A", "Ι">>>>,
     <<"ᾋ", <<"U+1F0B", "Ι">>>>, <<"ᾌ", <<"U+1F0C", "Ι">>>>,
     <<"ᾍ", <<"U+1F0D", "Ι">>>>, <<"ᾎ", <<"U+1F0E", "Ι">>>>,
     <<"ᾏ", <<"U+1F0F", "Ι">>>>, <<"ᾐ", <<"U+1F28", "Ι">>>>,
     <<"ᾑ", <<"U+1F29", "Ι">>>>, <<"ᾒ", <<"U+1F2A", "Ι">>>>,
     <<"ᾓ", <<"U+1F2B", "Ι">>>>, <<"ᾔ", <<"U+1F2C", "Ι">>>>,
     <<"ᾕ", <<"U+1F2D", "Ι">>>>, <<"ᾖ", <<"U+1F2E", "Ι">>>>,
     <<"ᾗ", <<"U+1F2F", "Ι">>>>, <<"ᾘ", <<"U+1F28", "Ι">>>>,
     <<"ᾙ", <<"U+1F29", "Ι">>>>, <<"ᾚ", <<"U+1F2A", "Ι">>>>,
     <<"ᾛ", <<"U+1F2B", "Ι">>>>, <<"ᾜ", <<"U+1F2C", "Ι">>>>,
     <<"ᾝ", <<"U+1F2D", "Ι">>>>, <<"ᾞ", <<"U+1F2E", "Ι">>>>,
     <<"ᾟ", <<"U+1F2F", "Ι">>>>, <<"ᾠ", <<"U+1F68", "Ι">>>>,
     <<"ᾡ", <<"U+1F69", "Ι">>>>, <<"ᾢ", <<"U+1F6A", "Ι">>>>,
     <<"ᾣ", <<"U+1F6B", "Ι">>>>, <<"ᾤ", <<"U+1F6C", "Ι">>>>,
     <<"ᾥ", <<"U+1F6D", "Ι">>>>, <<"ᾦ", <<"U+1F6E", "Ι">>>>,
     <<"ᾧ", <<"U+1F6F", "Ι">>>>, <<"ᾨ", <<"U+1F68", "Ι">>>>,
     <<"ᾩ", <<"U+1F69", "Ι">>>>, <<"ᾪ", <<"U+1F6A", "Ι">>>>,
     <<"ᾫ", <<"U+1F6B", "Ι">>>>, <<"ᾬ", <<"U+1F6C", "Ι">>>>,
     <<"ᾭ", <<"U+1F6D", "Ι">>>>, <<"ᾮ", <<"U+1F6E", "Ι">>>>,
     <<"ᾯ", <<"U+1F6F", "Ι">>>>, <<"ᾰ", <<"Ᾰ">>>>, <<"ᾱ", <<"Ᾱ">>>>,
     <<"ᾲ", <<"Ὰ", "Ι">>>>, <<"ᾳ", <<"Α", "Ι">>>>, <<"ᾴ", <<"Ά", "Ι">>>>,
     <<"ᾶ", <<"Α", "U+0342">>>>, <<"ᾷ", <<"Α", "U+0342", "Ι">>>>,
     <<"ᾼ", <<"Α", "Ι">>>>, <<"ι", <<"Ι">>>>, <<"ῂ", <<"Ὴ", "Ι">>>>,
     <<"ῃ", <<"Η", "Ι">>>>, <<"ῄ", <<"Ή", "Ι">>>>, <<"ῆ", <<"Η", "U+0342">>>>,
     <<"ῇ", <<"Η", "U+0342", "Ι">>>>, <<"ῌ", <<"Η", "Ι">>>>, <<"ῐ", <<"Ῐ">>>>,
     <<"ῑ", <<"Ῑ">>>>, <<"ῒ", <<"Ι", "U+0308", "U+0300">>>>,
     <<"ΐ", <<"Ι", "U+0308", "U+0301">>>>, <<"ῖ", <<"Ι", "U+0342">>>>,
     <<"ῗ", <<"Ι", "U+0308", "U+0342">>>>, <<"ῠ", <<"Ῠ">>>>, <<"ῡ", <<"Ῡ">>>>,
     <<"ῢ", <<"Υ", "U+0308", "U+0300">>>>,
     <<"ΰ", <<"Υ", "U+0308", "U+0301">>>>, <<"ῤ", <<"Ρ", "U+0313">>>>,
     <<"ῥ", <<"Ῥ">>>>, <<"ῦ", <<"Υ", "U+0342">>>>,
     <<"ῧ", <<"Υ", "U+0308", "U+0342">>>>, <<"ῲ", <<"Ὼ", "Ι">>>>,
     <<"ῳ", <<"Ω", "Ι">>>>, <<"ῴ", <<"Ώ", "Ι">>>>, <<"ῶ", <<"Ω", "U+0342">>>>,
     <<"ῷ", <<"Ω", "U+0342", "Ι">>>>, <<"ῼ", <<"Ω", "Ι">>>>,
     <<"U+214E", <<"U+2132">>>>, <<"U+2170", <<"U+2160">>>>,
     <<"U+2171", <<"U+2161">>>>, <<"U+2172", <<"U+2162">>>>,
     <<"U+2173", <<"U+2163">>>>, <<"U+2174", <<"U+2164">>>>,
     <<"U+2175", <<"U+2165">>>>, <<"U+2176", <<"U+2166">>>>,
     <<"U+2177", <<"U+2167">>>>, <<"U+2178", <<"U+2168">>>>,
     <<"U+2179", <<"U+2169">>>>, <<"U+217A", <<"U+216A">>>>,
     <<"U+217B", <<"U+216B">>>>, <<"U+217C", <<"U+216C">>>>,
     <<"U+217D", <<"U+216D">>>>, <<"U+217E", <<"U+216E">>>>,
     <<"U+217F", <<"U+216F">>>>, <<"ↄ", <<"Ↄ">>>>, <<"ⓐ", <<"Ⓐ">>>>,
     <<"ⓑ", <<"Ⓑ">>>>, <<"ⓒ", <<"Ⓒ">>>>, <<"ⓓ", <<"Ⓓ">>>>, <<"ⓔ", <<"Ⓔ">>>>,
     <<"ⓕ", <<"Ⓕ">>>>, <<"ⓖ", <<"Ⓖ">>>>, <<"ⓗ", <<"Ⓗ">>>>, <<"ⓘ", <<"Ⓘ">>>>,
     <<"ⓙ", <<"Ⓙ">>>>, <<"ⓚ", <<"Ⓚ">>>>, <<"ⓛ", <<"Ⓛ">>>>, <<"ⓜ", <<"Ⓜ">>>>,
     <<"ⓝ", <<"Ⓝ">>>>, <<"ⓞ", <<"Ⓞ">>>>, <<"ⓟ", <<"Ⓟ">>>>, <<"ⓠ", <<"Ⓠ">>>>,
     <<"ⓡ", <<"Ⓡ">>>>, <<"ⓢ", <<"Ⓢ">>>>, <<"ⓣ", <<"Ⓣ">>>>, <<"ⓤ", <<"Ⓤ">>>>,
     <<"ⓥ", <<"Ⓥ">>>>, <<"ⓦ", <<"Ⓦ">>>>, <<"ⓧ", <<"Ⓧ">>>>, <<"ⓨ", <<"Ⓨ">>>>,
     <<"ⓩ", <<"Ⓩ">>>>, <<"U+2C30", <<"U+2C00">>>>, <<"U+2C31", <<"U+2C01">>>>,
     <<"U+2C32", <<"U+2C02">>>>, <<"U+2C33", <<"U+2C03">>>>,
     <<"U+2C34", <<"U+2C04">>>>, <<"U+2C35", <<"U+2C05">>>>,
     <<"U+2C36", <<"U+2C06">>>>, <<"U+2C37", <<"U+2C07">>>>,
     <<"U+2C38", <<"U+2C08">>>>, <<"U+2C39", <<"U+2C09">>>>,
     <<"U+2C3A", <<"U+2C0A">>>>, <<"U+2C3B", <<"U+2C0B">>>>,
     <<"U+2C3C", <<"U+2C0C">>>>, <<"U+2C3D", <<"U+2C0D">>>>,
     <<"U+2C3E", <<"U+2C0E">>>>, <<"U+2C3F", <<"U+2C0F">>>>,
     <<"U+2C40", <<"U+2C10">>>>, <<"U+2C41", <<"U+2C11">>>>,
     <<"U+2C42", <<"U+2C12">>>>, <<"U+2C43", <<"U+2C13">>>>,
     <<"U+2C44", <<"U+2C14">>>>, <<"U+2C45", <<"U+2C15">>>>,
     <<"U+2C46", <<"U+2C16">>>>, <<"U+2C47", <<"U+2C17">>>>,
     <<"U+2C48", <<"U+2C18">>>>, <<"U+2C49", <<"U+2C19">>>>,
     <<"U+2C4A", <<"U+2C1A">>>>, <<"U+2C4B", <<"U+2C1B">>>>,
     <<"U+2C4C", <<"U+2C1C">>>>, <<"U+2C4D", <<"U+2C1D">>>>,
     <<"U+2C4E", <<"U+2C1E">>>>, <<"U+2C4F", <<"U+2C1F">>>>,
     <<"U+2C50", <<"U+2C20">>>>, <<"U+2C51", <<"U+2C21">>>>,
     <<"U+2C52", <<"U+2C22">>>>, <<"U+2C53", <<"U+2C23">>>>,
     <<"U+2C54", <<"U+2C24">>>>, <<"U+2C55", <<"U+2C25">>>>,
     <<"U+2C56", <<"U+2C26">>>>, <<"U+2C57", <<"U+2C27">>>>,
     <<"U+2C58", <<"U+2C28">>>>, <<"U+2C59", <<"U+2C29">>>>,
     <<"U+2C5A", <<"U+2C2A">>>>, <<"U+2C5B", <<"U+2C2B">>>>,
     <<"U+2C5C", <<"U+2C2C">>>>, <<"U+2C5D", <<"U+2C2D">>>>,
     <<"U+2C5E", <<"U+2C2E">>>>, <<"U+2C5F", <<"U+2C2F">>>>,
     <<"U+2C61", <<"U+2C60">>>>, <<"U+2C65", <<"U+023A">>>>,
     <<"U+2C66", <<"U+023E">>>>, <<"U+2C68", <<"U+2C67">>>>,
     <<"U+2C6A", <<"U+2C69">>>>, <<"U+2C6C", <<"U+2C6B">>>>,
     <<"U+2C73", <<"U+2C72">>>>, <<"U+2C76", <<"U+2C75">>>>, <<"ⲁ", <<"Ⲁ">>>>,
     <<"ⲃ", <<"Ⲃ">>>>, <<"ⲅ", <<"Ⲅ">>>>, <<"ⲇ", <<"Ⲇ">>>>, <<"ⲉ", <<"Ⲉ">>>>,
     <<"ⲋ", <<"Ⲋ">>>>, <<"ⲍ", <<"Ⲍ">>>>, <<"ⲏ", <<"Ⲏ">>>>, <<"ⲑ", <<"Ⲑ">>>>,
     <<"ⲓ", <<"Ⲓ">>>>, <<"ⲕ", <<"Ⲕ">>>>, <<"ⲗ", <<"Ⲗ">>>>, <<"ⲙ", <<"Ⲙ">>>>,
     <<"ⲛ", <<"Ⲛ">>>>, <<"ⲝ", <<"Ⲝ">>>>, <<"ⲟ", <<"Ⲟ">>>>, <<"ⲡ", <<"Ⲡ">>>>,
     <<"ⲣ", <<"Ⲣ">>>>, <<"ⲥ", <<"Ⲥ">>>>, <<"ⲧ", <<"Ⲧ">>>>, <<"ⲩ", <<"Ⲩ">>>>,
     <<"ⲫ", <<"Ⲫ">>>>, <<"ⲭ", <<"Ⲭ">>>>, <<"ⲯ", <<"Ⲯ">>>>, <<"ⲱ", <<"Ⲱ">>>>,
     <<"ⲳ", <<"Ⲳ">>>>, <<"ⲵ", <<"Ⲵ">>>>, <<"ⲷ", <<"Ⲷ">>>>, <<"ⲹ", <<"Ⲹ">>>>,
     <<"ⲻ", <<"Ⲻ">>>>, <<"ⲽ", <<"Ⲽ">>>>, <<"ⲿ", <<"Ⲿ">>>>, <<"ⳁ", <<"Ⳁ">>>>,
     <<"ⳃ", <<"Ⳃ">>>>, <<"ⳅ", <<"Ⳅ">>>>, <<"ⳇ", <<"Ⳇ">>>>, <<"ⳉ", <<"Ⳉ">>>>,
     <<"ⳋ", <<"Ⳋ">>>>, <<"ⳍ", <<"Ⳍ">>>>, <<"ⳏ", <<"Ⳏ">>>>, <<"ⳑ", <<"Ⳑ">>>>,
     <<"ⳓ", <<"Ⳓ">>>>, <<"ⳕ", <<"Ⳕ">>>>, <<"ⳗ", <<"Ⳗ">>>>, <<"ⳙ", <<"Ⳙ">>>>,
     <<"ⳛ", <<"Ⳛ">>>>, <<"ⳝ", <<"Ⳝ">>>>, <<"ⳟ", <<"Ⳟ">>>>, <<"ⳡ", <<"Ⳡ">>>>,
     <<"ⳣ", <<"Ⳣ">>>>, <<"ⳬ", <<"Ⳬ">>>>, <<"ⳮ", <<"Ⳮ">>>>, <<"ⳳ", <<"Ⳳ">>>>,
     <<"U+2D00", <<"Ⴀ">>>>, <<"U+2D01", <<"Ⴁ">>>>, <<"U+2D02", <<"Ⴂ">>>>,
     <<"U+2D03", <<"Ⴃ">>>>, <<"U+2D04", <<"Ⴄ">>>>, <<"U+2D05", <<"Ⴅ">>>>,
     <<"U+2D06", <<"Ⴆ">>>>, <<"U+2D07", <<"Ⴇ">>>>, <<"U+2D08", <<"Ⴈ">>>>,
     <<"U+2D09", <<"Ⴉ">>>>, <<"U+2D0A", <<"Ⴊ">>>>, <<"U+2D0B", <<"Ⴋ">>>>,
     <<"U+2D0C", <<"Ⴌ">>>>, <<"U+2D0D", <<"Ⴍ">>>>, <<"U+2D0E", <<"Ⴎ">>>>,
     <<"U+2D0F", <<"Ⴏ">>>>, <<"U+2D10", <<"Ⴐ">>>>, <<"U+2D11", <<"Ⴑ">>>>,
     <<"U+2D12", <<"Ⴒ">>>>, <<"U+2D13", <<"Ⴓ">>>>, <<"U+2D14", <<"Ⴔ">>>>,
     <<"U+2D15", <<"Ⴕ">>>>, <<"U+2D16", <<"Ⴖ">>>>, <<"U+2D17", <<"Ⴗ">>>>,
     <<"U+2D18", <<"Ⴘ">>>>, <<"U+2D19", <<"Ⴙ">>>>, <<"U+2D1A", <<"Ⴚ">>>>,
     <<"U+2D1B", <<"Ⴛ">>>>, <<"U+2D1C", <<"Ⴜ">>>>, <<"U+2D1D", <<"Ⴝ">>>>,
     <<"U+2D1E", <<"Ⴞ">>>>, <<"U+2D1F", <<"Ⴟ">>>>, <<"U+2D20", <<"Ⴠ">>>>,
     <<"U+2D21", <<"Ⴡ">>>>, <<"U+2D22", <<"Ⴢ">>>>, <<"U+2D23", <<"Ⴣ">>>>,
     <<"U+2D24", <<"Ⴤ">>>>, <<"U+2D25", <<"Ⴥ">>>>, <<"U+2D27", <<"Ⴧ">>>>,
     <<"U+2D2D", <<"Ⴭ">>>>, <<"U+A641", <<"U+A640">>>>,
     <<"U+A643", <<"U+A642">>>>, <<"U+A645", <<"U+A644">>>>,
     <<"U+A647", <<"U+A646">>>>, <<"U+A649", <<"U+A648">>>>,
     <<"U+A64B", <<"U+A64A">>>>, <<"U+A64D", <<"U+A64C">>>>,
     <<"U+A64F", <<"U+A64E">>>>, <<"U+A651", <<"U+A650">>>>,
     <<"U+A653", <<"U+A652">>>>, <<"U+A655", <<"U+A654">>>>,
     <<"U+A657", <<"U+A656">>>>, <<"U+A659", <<"U+A658">>>>,
     <<"U+A65B", <<"U+A65A">>>>, <<"U+A65D", <<"U+A65C">>>>,
     <<"U+A65F", <<"U+A65E">>>>, <<"U+A661", <<"U+A660">>>>,
     <<"U+A663", <<"U+A662">>>>, <<"U+A665", <<"U+A664">>>>,
     <<"U+A667", <<"U+A666">>>>, <<"U+A669", <<"U+A668">>>>,
     <<"U+A66B", <<"U+A66A">>>>, <<"U+A66D", <<"U+A66C">>>>, <<"ꚁ", <<"Ꚁ">>>>,
     <<"ꚃ", <<"Ꚃ">>>>, <<"ꚅ", <<"Ꚅ">>>>, <<"ꚇ", <<"Ꚇ">>>>, <<"ꚉ", <<"Ꚉ">>>>,
     <<"ꚋ", <<"Ꚋ">>>>, <<"ꚍ", <<"Ꚍ">>>>, <<"ꚏ", <<"Ꚏ">>>>, <<"ꚑ", <<"Ꚑ">>>>,
     <<"ꚓ", <<"Ꚓ">>>>, <<"ꚕ", <<"Ꚕ">>>>, <<"ꚗ", <<"Ꚗ">>>>, <<"ꚙ", <<"Ꚙ">>>>,
     <<"ꚛ", <<"Ꚛ">>>>, <<"U+A723", <<"U+A722">>>>, <<"U+A725", <<"U+A724">>>>,
     <<"U+A727", <<"U+A726">>>>, <<"U+A729", <<"U+A728">>>>,
     <<"U+A72B", <<"U+A72A">>>>, <<"U+A72D", <<"U+A72C">>>>,
     <<"U+A72F", <<"U+A72E">>>>, <<"U+A733", <<"U+A732">>>>,
     <<"U+A735", <<"U+A734">>>>, <<"U+A737", <<"U+A736">>>>,
     <<"U+A739", <<"U+A738">>>>, <<"U+A73B", <<"U+A73A">>>>,
     <<"U+A73D", <<"U+A73C">>>>, <<"U+A73F", <<"U+A73E">>>>,
     <<"U+A741", <<"U+A740">>>>, <<"U+A743", <<"U+A742">>>>,
     <<"U+A745", <<"U+A744">>>>, <<"U+A747", <<"U+A746">>>>,
     <<"U+A749", <<"U+A748">>>>, <<"U+A74B", <<"U+A74A">>>>,
     <<"U+A74D", <<"U+A74C">>>>, <<"U+A74F", <<"U+A74E">>>>,
     <<"U+A751", <<"U+A750">>>>, <<"U+A753", <<"U+A752">>>>,
     <<"U+A755", <<"U+A754">>>>, <<"U+A757", <<"U+A756">>>>,
     <<"U+A759", <<"U+A758">>>>, <<"U+A75B", <<"U+A75A">>>>,
     <<"U+A75D", <<"U+A75C">>>>, <<"U+A75F", <<"U+A75E">>>>,
     <<"U+A761", <<"U+A760">>>>, <<"U+A763", <<"U+A762">>>>,
     <<"U+A765", <<"U+A764">>>>, <<"U+A767", <<"U+A766">>>>,
     <<"U+A769", <<"U+A768">>>>, <<"U+A76B", <<"U+A76A">>>>,
     <<"U+A76D", <<"U+A76C">>>>, <<"U+A76F", <<"U+A76E">>>>,
     <<"U+A77A", <<"U+A779">>>>, <<"U+A77C", <<"U+A77B">>>>,
     <<"U+A77F", <<"U+A77E">>>>, <<"ꞁ", <<"Ꞁ">>>>, <<"ꞃ", <<"Ꞃ">>>>,
     <<"ꞅ", <<"Ꞅ">>>>, <<"ꞇ", <<"Ꞇ">>>>, <<"ꞌ", <<"Ꞌ">>>>, <<"ꞑ", <<"Ꞑ">>>>,
     <<"ꞓ", <<"Ꞓ">>>>, <<"ꞔ", <<"Ꞔ">>>>, <<"ꞗ", <<"Ꞗ">>>>, <<"ꞙ", <<"Ꞙ">>>>,
     <<"ꞛ", <<"Ꞛ">>>>, <<"ꞝ", <<"Ꞝ">>>>, <<"ꞟ", <<"Ꞟ">>>>, <<"ꞡ", <<"Ꞡ">>>>,
     <<"ꞣ", <<"Ꞣ">>>>, <<"ꞥ", <<"Ꞥ">>>>, <<"ꞧ", <<"Ꞧ">>>>, <<"ꞩ", <<"Ꞩ">>>>,
     <<"ꞵ", <<"Ꞵ">>>>, <<"ꞷ", <<"Ꞷ">>>>, <<"ꞹ", <<"Ꞹ">>>>, <<"ꞻ", <<"Ꞻ">>>>,
     <<"ꞽ", <<"Ꞽ">>>>, <<"ꞿ", <<"Ꞿ">>>>, <<"ꟁ", <<"Ꟁ">>>>, <<"ꟃ", <<"Ꟃ">>>>,
     <<"ꟈ", <<"Ꟈ">>>>, <<"ꟊ", <<"Ꟊ">>>>, <<"ꟍ", <<"Ꟍ">>>>, <<"꟏", <<"꟎">>>>,
     <<"ꟑ", <<"Ꟑ">>>>, <<"ꟓ", <<"꟒">>>>, <<"ꟕ", <<"꟔">>>>, <<"ꟗ", <<"Ꟗ">>>>,
     <<"ꟙ", <<"Ꟙ">>>>, <<"ꟛ", <<"Ꟛ">>>>, <<"ꟶ", <<"Ꟶ">>>>,
     <<"U+AB53", <<"Ꭓ">>>>, <<"U+AB70", <<"Ꭰ">>>>, <<"U+AB71", <<"Ꭱ">>>>,
     <<"U+AB72", <<"Ꭲ">>>>, <<"U+AB73", <<"Ꭳ">>>>, <<"U+AB74", <<"Ꭴ">>>>,
     <<"U+AB75", <<"Ꭵ">>>>, <<"U+AB76", <<"Ꭶ">>>>, <<"U+AB77", <<"Ꭷ">>>>,
     <<"U+AB78", <<"Ꭸ">>>>, <<"U+AB79", <<"Ꭹ">>>>, <<"U+AB7A", <<"Ꭺ">>>>,
     <<"U+AB7B", <<"Ꭻ">>>>, <<"U+AB7C", <<"Ꭼ">>>>, <<"U+AB7D", <<"Ꭽ">>>>,
     <<"U+AB7E", <<"Ꭾ">>>>, <<"U+AB7F", <<"Ꭿ">>>>, <<"ꮀ", <<"Ꮀ">>>>,
     <<"ꮁ", <<"Ꮁ">>>>, <<"ꮂ", <<"Ꮂ">>>>, <<"ꮃ", <<"Ꮃ">>>>, <<"ꮄ", <<"Ꮄ">>>>,
     <<"ꮅ", <<"Ꮅ">>>>, <<"ꮆ", <<"Ꮆ">>>>, <<"ꮇ", <<"Ꮇ">>>>, <<"ꮈ", <<"Ꮈ">>>>,
     <<"ꮉ", <<"Ꮉ">>>>, <<"ꮊ", <<"Ꮊ">>>>, <<"ꮋ", <<"Ꮋ">>>>, <<"ꮌ", <<"Ꮌ">>>>,
     <<"ꮍ", <<"Ꮍ">>>>, <<"ꮎ", <<"Ꮎ">>>>, <<"ꮏ", <<"Ꮏ">>>>, <<"ꮐ", <<"Ꮐ">>>>,
     <<"ꮑ", <<"Ꮑ">>>>, <<"ꮒ", <<"Ꮒ">>>>, <<"ꮓ", <<"Ꮓ">>>>, <<"ꮔ", <<"Ꮔ">>>>,
     <<"ꮕ", <<"Ꮕ">>>>, <<"ꮖ", <<"Ꮖ">>>>, <<"ꮗ", <<"Ꮗ">>>>, <<"ꮘ", <<"Ꮘ">>>>,
     <<"ꮙ", <<"Ꮙ">>>>, <<"ꮚ", <<"Ꮚ">>>>, <<"ꮛ", <<"Ꮛ">>>>, <<"ꮜ", <<"Ꮜ">>>>,
     <<"ꮝ", <<"Ꮝ">>>>, <<"ꮞ", <<"Ꮞ">>>>, <<"ꮟ", <<"Ꮟ">>>>, <<"ꮠ", <<"Ꮠ">>>>,
     <<"ꮡ", <<"Ꮡ">>>>, <<"ꮢ", <<"Ꮢ">>>>, <<"ꮣ", <<"Ꮣ">>>>, <<"ꮤ", <<"Ꮤ">>>>,
     <<"ꮥ", <<"Ꮥ">>>>, <<"ꮦ", <<"Ꮦ">>>>, <<"ꮧ", <<"Ꮧ">>>>, <<"ꮨ", <<"Ꮨ">>>>,
     <<"ꮩ", <<"Ꮩ">>>>, <<"ꮪ", <<"Ꮪ">>>>, <<"ꮫ", <<"Ꮫ">>>>, <<"ꮬ", <<"Ꮬ">>>>,
     <<"ꮭ", <<"Ꮭ">>>>, <<"ꮮ", <<"Ꮮ">>>>, <<"ꮯ", <<"Ꮯ">>>>, <<"ꮰ", <<"Ꮰ">>>>,
     <<"ꮱ", <<"Ꮱ">>>>, <<"ꮲ", <<"Ꮲ">>>>, <<"ꮳ", <<"Ꮳ">>>>, <<"ꮴ", <<"Ꮴ">>>>,
     <<"ꮵ", <<"Ꮵ">>>>, <<"ꮶ", <<"Ꮶ">>>>, <<"ꮷ", <<"Ꮷ">>>>, <<"ꮸ", <<"Ꮸ">>>>,
     <<"ꮹ", <<"Ꮹ">>>>, <<"ꮺ", <<"Ꮺ">>>>, <<"ꮻ", <<"Ꮻ">>>>, <<"ꮼ", <<"Ꮼ">>>>,
     <<"ꮽ", <<"Ꮽ">>>>, <<"ꮾ", <<"Ꮾ">>>>, <<"ꮿ", <<"Ꮿ">>>>,
     <<"U+FB00", <<"F", "F">>>>, <<"U+FB01", <<"F", "I">>>>,
     <<"U+FB02", <<"F", "L">>>>, <<"U+FB03", <<"F", "F", "I">>>>,
     <<"U+FB04", <<"F", "F", "L">>>>, <<"U+FB05", <<"S", "T">>>>,
     <<"U+FB06", <<"S", "T">>>>, <<"U+FB13", <<"U+0544", "U+0546">>>>,
     <<"U+FB14", <<"U+0544", "U+0535">>>>,
     <<"U+FB15", <<"U+0544", "U+053B">>>>,
     <<"U+FB16", <<"U+054E", "U+0546">>>>,
     <<"U+FB17", <<"U+0544", "U+053D">>>>, <<"U+FF41", <<"U+FF21">>>>,
     <<"U+FF42", <<"U+FF22">>>>, <<"U+FF43", <<"U+FF23">>>>,
     <<"U+FF44", <<"U+FF24">>>>, <<"U+FF45", <<"U+FF25">>>>,
     <<"U+FF46", <<"U+FF26">>>>, <<"U+FF47", <<"U+FF27">>>>,
     <<"U+FF48", <<"U+FF28">>>>, <<"U+FF49", <<"U+FF29">>>>,
     <<"U+FF4A", <<"U+FF2A">>>>, <<"U+FF4B", <<"U+FF2B">>>>,
     <<"U+FF4C", <<"U+FF2C">>>>, <<"U+FF4D", <<"U+FF2D">>>>,
     <<"U+FF4E", <<"U+FF2E">>>>, <<"U+FF4F", <<"U+FF2F">>>>,
     <<"U+FF50", <<"U+FF30">>>>, <<"U+FF51", <<"U+FF31">>>>,
     <<"U+FF52", <<"U+FF32">>>>, <<"U+FF53", <<"U+FF33">>>>,
     <<"U+FF54", <<"U+FF34">>>>, <<"U+FF55", <<"U+FF35">>>>,
     <<"U+FF56", <<"U+FF36">>>>, <<"U+FF57", <<"U+FF37">>>>,
     <<"U+FF58", <<"U+FF38">>>>, <<"U+FF59", <<"U+FF39">>>>,
     <<"U+FF5A", <<"U+FF3A">>>>, <<"U+10428", <<"U+10400">>>>,
     <<"U+10429", <<"U+10401">>>>, <<"U+1042A", <<"U+10402">>>>,
     <<"U+1042B", <<"U+10403">>>>, <<"U+1042C", <<"U+10404">>>>,
     <<"U+1042D", <<"U+10405">>>>, <<"U+1042E", <<"U+10406">>>>,
     <<"U+1042F", <<"U+10407">>>>, <<"U+10430", <<"U+10408">>>>,
     <<"U+10431", <<"U+10409">>>>, <<"U+10432", <<"U+1040A">>>>,
     <<"U+10433", <<"U+1040B">>>>, <<"U+10434", <<"U+1040C">>>>,
     <<"U+10435", <<"U+1040D">>>>, <<"U+10436", <<"U+1040E">>>>,
     <<"U+10437", <<"U+1040F">>>>, <<"U+10438", <<"U+10410">>>>,
     <<"U+10439", <<"U+10411">>>>, <<"U+1043A", <<"U+10412">>>>,
     <<"U+1043B", <<"U+10413">>>>, <<"U+1043C", <<"U+10414">>>>,
     <<"U+1043D", <<"U+10415">>>>, <<"U+1043E", <<"U+10416">>>>,
     <<"U+1043F", <<"U+10417">>>>, <<"U+10440", <<"U+10418">>>>,
     <<"U+10441", <<"U+10419">>>>, <<"U+10442", <<"U+1041A">>>>,
     <<"U+10443", <<"U+1041B">>>>, <<"U+10444", <<"U+1041C">>>>,
     <<"U+10445", <<"U+1041D">>>>, <<"U+10446", <<"U+1041E">>>>,
     <<"U+10447", <<"U+1041F">>>>, <<"U+10448", <<"U+10420">>>>,
     <<"U+10449", <<"U+10421">>>>, <<"U+1044A", <<"U+10422">>>>,
     <<"U+1044B", <<"U+10423">>>>, <<"U+1044C", <<"U+10424">>>>,
     <<"U+1044D", <<"U+10425">>>>, <<"U+1044E", <<"U+10426">>>>,
     <<"U+1044F", <<"U+10427">>>>, <<"U+104D8", <<"U+104B0">>>>,
     <<"U+104D9", <<"U+104B1">>>>, <<"U+104DA", <<"U+104B2">>>>,
     <<"U+104DB", <<"U+104B3">>>>, <<"U+104DC", <<"U+104B4">>>>,
     <<"U+104DD", <<"U+104B5">>>>, <<"U+104DE", <<"U+104B6">>>>,
     <<"U+104DF", <<"U+104B7">>>>, <<"U+104E0", <<"U+104B8">>>>,
     <<"U+104E1", <<"U+104B9">>>>, <<"U+104E2", <<"U+104BA">>>>,
     <<"U+104E3", <<"U+104BB">>>>, <<"U+104E4", <<"U+104BC">>>>,
     <<"U+104E5", <<"U+104BD">>>>, <<"U+104E6", <<"U+104BE">>>>,
     <<"U+104E7", <<"U+104BF">>>>, <<"U+104E8", <<"U+104C0">>>>,
     <<"U+104E9", <<"U+104C1">>>>, <<"U+104EA", <<"U+104C2">>>>,
     <<"U+104EB", <<"U+104C3">>>>, <<"U+104EC", <<"U+104C4">>>>,
     <<"U+104ED", <<"U+104C5">>>>, <<"U+104EE", <<"U+104C6">>>>,
     <<"U+104EF", <<"U+104C7">>>>, <<"U+104F0", <<"U+104C8">>>>,
     <<"U+104F1", <<"U+104C9">>>>, <<"U+104F2", <<"U+104CA">>>>,
     <<"U+104F3", <<"U+104CB">>>>, <<"U+104F4", <<"U+104CC">>>>,
     <<"U+104F5", <<"U+104CD">>>>, <<"U+104F6", <<"U+104CE">>>>,
     <<"U+104F7", <<"U+104CF">>>>, <<"U+104F8", <<"U+104D0">>>>,
     <<"U+104F9", <<"U+104D1">>>>, <<"U+104FA", <<"U+104D2">>>>,
     <<"U+104FB", <<"U+104D3">>>>, <<"U+10597", <<"U+10570">>>>,
     <<"U+10598", <<"U+10571">>>>, <<"U+10599", <<"U+10572">>>>,
     <<"U+1059A", <<"U+10573">>>>, <<"U+1059B", <<"U+10574">>>>,
     <<"U+1059C", <<"U+10575">>>>, <<"U+1059D", <<"U+10576">>>>,
     <<"U+1059E", <<"U+10577">>>>, <<"U+1059F", <<"U+10578">>>>,
     <<"U+105A0", <<"U+10579">>>>, <<"U+105A1", <<"U+1057A">>>>,
     <<"U+105A3", <<"U+1057C">>>>, <<"U+105A4", <<"U+1057D">>>>,
     <<"U+105A5", <<"U+1057E">>>>, <<"U+105A6", <<"U+1057F">>>>,
     <<"U+105A7", <<"U+10580">>>>, <<"U+105A8", <<"U+10581">>>>,
     <<"U+105A9", <<"U+10582">>>>, <<"U+105AA", <<"U+10583">>>>,
     <<"U+105AB", <<"U+10584">>>>, <<"U+105AC", <<"U+10585">>>>,
     <<"U+105AD", <<"U+10586">>>>, <<"U+105AE", <<"U+10587">>>>,
     <<"U+105AF", <<"U+10588">>>>, <<"U+105B0", <<"U+10589">>>>,
     <<"U+105B1", <<"U+1058A">>>>, <<"U+105B3", <<"U+1058C">>>>,
     <<"U+105B4", <<"U+1058D">>>>, <<"U+105B5", <<"U+1058E">>>>,
     <<"U+105B6", <<"U+1058F">>>>, <<"U+105B7", <<"U+10590">>>>,
     <<"U+105B8", <<"U+10591">>>>, <<"U+105B9", <<"U+10592">>>>,
     <<"U+105BB", <<"U+10594">>>>, <<"U+105BC", <<"U+10595">>>>,
     <<"U+10CC0", <<"U+10C80">>>>, <<"U+10CC1", <<"U+10C81">>>>,
     <<"U+10CC2", <<"U+10C82">>>>, <<"U+10CC3", <<"U+10C83">>>>,
     <<"U+10CC4", <<"U+10C84">>>>, <<"U+10CC5", <<"U+10C85">>>>,
     <<"U+10CC6", <<"U+10C86">>>>, <<"U+10CC7", <<"U+10C87">>>>,
     <<"U+10CC8", <<"U+10C88">>>>, <<"U+10CC9", <<"U+10C89">>>>,
     <<"U+10CCA", <<"U+10C8A">>>>, <<"U+10CCB", <<"U+10C8B">>>>,
     <<"U+10CCC", <<"U+10C8C">>>>, <<"U+10CCD", <<"U+10C8D">>>>,
     <<"U+10CCE", <<"U+10C8E">>>>, <<"U+10CCF", <<"U+10C8F">>>>,
     <<"U+10CD0", <<"U+10C90">>>>, <<"U+10CD1", <<"U+10C91">>>>,
     <<"U+10CD2", <<"U+10C92">>>>, <<"U+10CD3", <<"U+10C93">>>>,
     <<"U+10CD4", <<"U+10C94">>>>, <<"U+10CD5", <<"U+10C95">>>>,
     <<"U+10CD6", <<"U+10C96">>>>, <<"U+10CD7", <<"U+10C97">>>>,
     <<"U+10CD8", <<"U+10C98">>>>, <<"U+10CD9", <<"U+10C99">>>>,
     <<"U+10CDA", <<"U+10C9A">>>>, <<"U+10CDB", <<"U+10C9B">>>>,
     <<"U+10CDC", <<"U+10C9C">>>>, <<"U+10CDD", <<"U+10C9D">>>>,
     <<"U+10CDE", <<"U+10C9E">>>>, <<"U+10CDF", <<"U+10C9F">>>>,
     <<"U+10CE0", <<"U+10CA0">>>>, <<"U+10CE1", <<"U+10CA1">>>>,
     <<"U+10CE2", <<"U+10CA2">>>>, <<"U+10CE3", <<"U+10CA3">>>>,
     <<"U+10CE4", <<"U+10CA4">>>>, <<"U+10CE5", <<"U+10CA5">>>>,
     <<"U+10CE6", <<"U+10CA6">>>>, <<"U+10CE7", <<"U+10CA7">>>>,
     <<"U+10CE8", <<"U+10CA8">>>>, <<"U+10CE9", <<"U+10CA9">>>>,
     <<"U+10CEA", <<"U+10CAA">>>>, <<"U+10CEB", <<"U+10CAB">>>>,
     <<"U+10CEC", <<"U+10CAC">>>>, <<"U+10CED", <<"U+10CAD">>>>,
     <<"U+10CEE", <<"U+10CAE">>>>, <<"U+10CEF", <<"U+10CAF">>>>,
     <<"U+10CF0", <<"U+10CB0">>>>, <<"U+10CF1", <<"U+10CB1">>>>,
     <<"U+10CF2", <<"U+10CB2">>>>, <<"U+10D70", <<"U+10D50">>>>,
     <<"U+10D71", <<"U+10D51">>>>, <<"U+10D72", <<"U+10D52">>>>,
     <<"U+10D73", <<"U+10D53">>>>, <<"U+10D74", <<"U+10D54">>>>,
     <<"U+10D75", <<"U+10D55">>>>, <<"U+10D76", <<"U+10D56">>>>,
     <<"U+10D77", <<"U+10D57">>>>, <<"U+10D78", <<"U+10D58">>>>,
     <<"U+10D79", <<"U+10D59">>>>, <<"U+10D7A", <<"U+10D5A">>>>,
     <<"U+10D7B", <<"U+10D5B">>>>, <<"U+10D7C", <<"U+10D5C">>>>,
     <<"U+10D7D", <<"U+10D5D">>>>, <<"U+10D7E", <<"U+10D5E">>>>,
     <<"U+10D7F", <<"U+10D5F">>>>, <<"U+10D80", <<"U+10D60">>>>,
     <<"U+10D81", <<"U+10D61">>>>, <<"U+10D82", <<"U+10D62">>>>,
     <<"U+10D83", <<"U+10D63">>>>, <<"U+10D84", <<"U+10D64">>>>,
     <<"U+10D85", <<"U+10D65">>>>, <<"U+118C0", <<"U+118A0">>>>,
     <<"U+118C1", <<"U+118A1">>>>, <<"U+118C2", <<"U+118A2">>>>,
     <<"U+118C3", <<"U+118A3">>>>, <<"U+118C4", <<"U+118A4">>>>,
     <<"U+118C5", <<"U+118A5">>>>, <<"U+118C6", <<"U+118A6">>>>,
     <<"U+118C7", <<"U+118A7">>>>, <<"U+118C8", <<"U+118A8">>>>,
     <<"U+118C9", <<"U+118A9">>>>, <<"U+118CA", <<"U+118AA">>>>,
     <<"U+118CB", <<"U+118AB">>>>, <<"U+118CC", <<"U+118AC">>>>,
     <<"U+118CD", <<"U+118AD">>>>, <<"U+118CE", <<"U+118AE">>>>,
     <<"U+118CF", <<"U+118AF">>>>, <<"U+118D0", <<"U+118B0">>>>,
     <<"U+118D1", <<"U+118B1">>>>, <<"U+118D2", <<"U+118B2">>>>,
     <<"U+118D3", <<"U+118B3">>>>, <<"U+118D4", <<"U+118B4">>>>,
     <<"U+118D5", <<"U+118B5">>>>, <<"U+118D6", <<"U+118B6">>>>,
     <<"U+118D7", <<"U+118B7">>>>, <<"U+118D8", <<"U+118B8">>>>,
     <<"U+118D9", <<"U+118B9">>>>, <<"U+118DA", <<"U+118BA">>>>,
     <<"U+118DB", <<"U+118BB">>>>, <<"U+118DC", <<"U+118BC">>>>,
     <<"U+118DD", <<"U+118BD">>>>, <<"U+118DE", <<"U+118BE">>>>,
     <<"U+118DF", <<"U+118BF">>>>, <<"U+16E60", <<"U+16E40">>>>,
     <<"U+16E61", <<"U+16E41">>>>, <<"U+16E62", <<"U+16E42">>>>,
     <<"U+16E63", <<"U+16E43">>>>, <<"U+16E64", <<"U+16E44">>>>,
     <<"U+16E65", <<"U+16E45">>>>, <<"U+16E66", <<"U+16E46">>>>,
     <<"U+16E67", <<"U+16E47">>>>, <<"U+16E68", <<"U+16E48">>>>,
     <<"U+16E69", <<"U+16E49">>>>, <<"U+16E6A", <<"U+16E4A">>>>,
     <<"U+16E6B", <<"U+16E4B">>>>, <<"U+16E6C", <<"U+16E4C">>>>,
     <<"U+16E6D", <<"U+16E4D">>>>, <<"U+16E6E", <<"U+16E4E">>>>,
     <<"U+16E6F", <<"U+16E4F">>>>, <<"U+16E70", <<"U+16E50">>>>,
     <<"U+16E71", <<"U+16E51">>>>, <<"U+16E72", <<"U+16E52">>>>,
     <<"U+16E73", <<"U+16E53">>>>, <<"U+16E74", <<"U+16E54">>>>,
     <<"U+16E75", <<"U+16E55">>>>, <<"U+16E76", <<"U+16E56">>>>,
     <<"U+16E77", <<"U+16E57">>>>, <<"U+16E78", <<"U+16E58">>>>,
     <<"U+16E79", <<"U+16E59">>>>, <<"U+16E7A", <<"U+16E5A">>>>,
     <<"U+16E7B", <<"U+16E5B">>>>, <<"U+16E7C", <<"U+16E5C">>>>,
     <<"U+16E7D", <<"U+16E5D">>>>, <<"U+16E7E", <<"U+16E5E">>>>,
     <<"U+16E7F", <<"U+16E5F">>>>, <<"U+16EBB", <<"U+16EA0">>>>,
     <<"U+16EBC", <<"U+16EA1">>>>, <<"U+16EBD", <<"U+16EA2">>>>,
     <<"U+16EBE", <<"U+16EA3">>>>, <<"U+16EBF", <<"U+16EA4">>>>,
     <<"U+16EC0", <<"U+16EA5">>>>, <<"U+16EC1", <<"U+16EA6">>>>,
     <<"U+16EC2", <<"U+16EA7">>>>, <<"U+16EC3", <<"U+16EA8">>>>,
     <<"U+16EC4", <<"U+16EA9">>>>, <<"U+16EC5", <<"U+16EAA">>>>,
     <<"U+16EC6", <<"U+16EAB">>>>, <<"U+16EC7", <<"U+16EAC">>>>,
     <<"U+16EC8", <<"U+16EAD">>>>, <<"U+16EC9", <<"U+16EAE">>>>,
     <<"U+16ECA", <<"U+16EAF">>>>, <<"U+16ECB", <<"U+16EB0">>>>,
     <<"U+16ECC", <<"U+16EB1">>>>, <<"U+16ECD", <<"U+16EB2">>>>,
     <<"U+16ECE", <<"U+16EB3">>>>, <<"U+16ECF", <<"U+16EB4">>>>,
     <<"U+16ED0", <<"U+16EB5">>>>, <<"U+16ED1", <<"U+16EB6">>>>,
     <<"U+16ED2", <<"U+16EB7">>>>, <<"U+16ED3", <<"U+16EB8">>>>,
     <<"U+1E922", <<"U+1E900">>>>, <<"U+1E923", <<"U+1E901">>>>,
     <<"U+1E924", <<"U+1E902">>>>, <<"U+1E925", <<"U+1E903">>>>,
     <<"U+1E926", <<"U+1E904">>>>, <<"U+1E927", <<"U+1E905">>>>,
     <<"U+1E928", <<"U+1E906">>>>, <<"U+1E929", <<"U+1E907">>>>,
     <<"U+1E92A", <<"U+1E908">>>>, <<"U+1E92B", <<"U+1E909">>>>,
     <<"U+1E92C", <<"U+1E90A">>>>, <<"U+1E92D", <<"U+1E90B">>>>,
     <<"U+1E92E", <<"U+1E90C">>>>, <<"U+1E92F", <<"U+1E90D">>>>,
     <<"U+1E930", <<"U+1E90E">>>>, <<"U+1E931", <<"U+1E90F">>>>,
     <<"U+1E932", <<"U+1E910">>>>, <<"U+1E933", <<"U+1E911">>>>,
     <<"U+1E934", <<"U+1E912">>>>, <<"U+1E935", <<"U+1E913">>>>,
     <<"U+1E936", <<"U+1E914">>>>, <<"U+1E937", <<"U+1E915">>>>,
     <<"U+1E938", <<"U+1E916">>>>, <<"U+1E939", <<"U+1E917">>>>,
     <<"U+1E93A", <<"U+1E918">>>>, <<"U+1E93B", <<"U+1E919">>>>,
     <<"U+1E93C", <<"U+1E91A">>>>, <<"U+1E93D", <<"U+1E91B">>>>,
     <<"U+1E93E", <<"U+1E91C">>>>, <<"U+1E93F", <<"U+1E91D">>>>,
     <<"U+1E940", <<"U+1E91E">>>>, <<"U+1E941", <<"U+1E91F">>>>,
     <<"U+1E942", <<"U+1E920">>>>, <<"U+1E943", <<"U+1E921">>>>}

UpperCaseOf ==
    [c \in {e[1] : e \in CaseMappings} |-> (CHOOSE e \in CaseMappings : e[1] = c)[2]]

\* The upper case of one character, as a text.
UpperCase(c) == IF c \in DOMAIN UpperCaseOf THEN UpperCaseOf[c] ELSE <<c>>

RECURSIVE toUpperCase(_)
toUpperCase(str) ==
    IF str = <<>> THEN <<>> ELSE UpperCase(Head(str)) \o toUpperCase(Tail(str))

\* get up()
UpProperty(s) == IF s.upAttr = <<>> THEN <<"z">> ELSE s.upAttr

\* The rotation _setUp gives the world node for a sign and an axis.
UpRotation(sign, axis) ==
    CASE axis = "X" -> <<0, 0, IF sign = "+" THEN 1 ELSE -1>>
      [] axis = "Z" -> <<IF sign = "+" THEN -1 ELSE 1, 0, 0>>
      [] axis = "Y" -> <<IF sign = "+" THEN 0 ELSE 2, 0, 0>>

_setUp(s, up) ==
    LET a == toUpperCase(IF up = <<>> THEN <<"+", "Z">> ELSE up)
        signs == SelectSeq(a, LAMBDA c : c \in {"-", "+"})
        axes == SelectSeq(a, LAMBDA c : c \in {"X", "Y", "Z", "x", "y", "z"})
        sign == IF signs # <<>> THEN signs[1] ELSE "+"
        axis == IF axes # <<>> THEN axes[1] ELSE "Z"
    IN [s EXCEPT !.worldRotation = UpRotation(sign, axis)]

\* setJointValue notifying whatever the joint reports.
setJointValue_IgnoresReport(s, jointName, v) ==
    IF s.robot = NoRobot THEN s
    ELSE IF jointName \notin JointNames THEN s
    ELSE LET new == JointPolicy(s.jointIgnore[s.robot][jointName], v)
             a == [s EXCEPT !.jointValue[s.robot][jointName] = new]
         IN Log(redraw(a), "angle-change:" \o jointName)

\* The element's setJointValue for one value.
setJointValue(s, jointName, v) ==
    IF s.robot = NoRobot THEN s
    ELSE IF jointName \notin JointNames THEN s
    ELSE LET new == JointPolicy(s.jointIgnore[s.robot][jointName], v)
             a == [s EXCEPT !.jointValue[s.robot][jointName] = new]
         IN IF new # s.jointValue[s.robot][jointName]
            THEN Log(redraw(a), "angle-change:" \o jointName)
            ELSE a

\* setJointValues: setJointValue for each name of values, in the order of
\* its keys; values is the sequence of its <<name, value>> entries.
RECURSIVE setJointValues(_, _)
setJointValues(s, values) ==
    IF values = <<>> THEN s
    ELSE setJointValues(setJointValue(s, Head(values)[1], Head(values)[2]), Tail(values))

\* this.robot = robot; this.world.add(robot)
\* (Object3D.add ignores an argument that is no Object3D.)
mount(s, model) ==
    Log([s EXCEPT !.robot = model,
                  !.worldChildren = IF model = NoRobot THEN @ ELSE @ \cup {model}],
        "mount")

\* What both completion handlers do after having mounted the model and
\* walked its materials: limits, notifications, recenter.
afterMount(s, model) ==
    LET a == _updateCollisionVisibility(_setIgnoreLimits(s, s.ignoreLimits, FALSE))
        b == Log(Log(a, "urdf-processed"), "geometry-loaded")
    IN recenter([b EXCEPT !.notified = @ \cup {model}])

\* updateMaterials(mesh) reads urdf.materials[...] for every Mesh of the
\* subtree, where urdf is the locator string of _loadUrdf: it throws on the
\* first Mesh it meets, and on a null subtree.
updateMaterialsThrows(model, meshes) == model = NoRobot \/ meshes

\* The callback given to loader.load: it is handed the parsed model.
loadComplete(s, id, meshes) ==
    LET a == [s EXCEPT !.imports[id].phase = "parsed"]
    IN IF updateMaterialsThrows(id, meshes) THEN a
       ELSE afterMount(mount(a, id), id)

\* manager.onLoad, with the handler's local variable robot holding model.
onLoad(s, id, model, meshes) ==
    IF s.requestId # id
    THEN IF model = NoRobot THEN s ELSE disposeTraversal(s, model)
    ELSE LET a == mount(s, model)
         IN IF updateMaterialsThrows(model, meshes) THEN a
            ELSE afterMount(a, model)

attributeChangedCallback(s, attr) ==
    LET a == CASE attr \in {"package", "urdf"} -> _scheduleLoad(s)
               [] attr = "up" -> _setUp(s, UpProperty(s))
               [] attr = "ignore-limits" -> _setIgnoreLimits(s, s.ignoreLimits, TRUE)
               [] OTHER -> s
        b == _updateCollisionVisibility(a)
    IN IF ~b.noAutoRecenter THEN recenter(b) ELSE b

\* The setters of the boolean attributes: setAttribute(name, '') calls the
\* element back on every call, removeAttribute(name) only when the
\* attribute is present.
\* set showCollision
applyCollisionVisibility(s, flag) ==
    IF ~flag /\ ~s.showCollision THEN s
    ELSE attributeChangedCallback([s EXCEPT !.showCollision = flag], "show-collision")

\* set ignoreLimits
applyIgnoreLimits(s, flag) ==
    IF ~flag /\ ~s.ignoreLimits THEN s
    ELSE attributeChangedCallback([s EXCEPT !.ignoreLimits = flag], "ignore-limits")

\* set displayShadow
applyDisplayShadow(s, flag) ==
    IF ~flag /\ ~s.displayShadow THEN s
    ELSE attributeChangedCallback([s EXCEPT !.displayShadow = flag], "display-shadow")

\* connectedCallback starting the render loop again.
connectedCallback_RestartsLoop(s) ==
    LET a == updateSize(s)
    IN [a EXCEPT !.rafQueue = Append(Append(Without(@, "loop"), "size"), "loop")]

connectedCallback(s) ==
    LET a == updateSize(s)
    IN [a EXCEPT !.rafQueue = Append(@, "size")]

\* cancelAnimationFrame(this._renderLoopId)
disconnectedCallback(s) == [s EXCEPT !.rafQueue = Without(@, "loop")]

(***************************************************************************)
(* Initial state: the element as its constructor leaves it.  The           *)
(* constructor runs renderLoop once, with no parent, which registers the   *)
(* first frame callback.                                                   *)
(***************************************************************************)
Init ==
    /\ pkgAttr = <<>>
    /\ urdfAttr = <<>>
    /\ prevload = Undefined
    /\ loadScheduled = FALSE
    /\ requestId = 0
    /\ robot = NoRobot
    /\ worldChildren = {}
    /\ disposed = {}
    /\ imports = [id \in RequestIds |-> NoImport]
    /\ notified = {}
    /\ attached = FALSE
    /\ containerSize = <<800, 600>>
    /\ rendererSize = DefaultCanvasSize
    /\ dirty = FALSE
    /\ autoRedraw = FALSE
    /\ noAutoRecenter = FALSE
    /\ planeY = InitialPlaneY
    /\ targetY = 0
    /\ displayShadow = FALSE
    /\ castShadow = TRUE
    /\ lightPosition = InitialLightPosition
    /\ lightTarget = Origin
    /\ shadowExtent = DefaultShadowExtent
    /\ upAttr = <<>>
    /\ worldRotation = NoRotation
    /\ ignoreLimits = FALSE
    /\ showCollision = FALSE
    /\ jointValue = [m \in RequestIds |-> [j \in JointNames |-> ParsedJointValue]]
    /\ jointIgnore = [m \in RequestIds |-> [j \in JointNames |-> FALSE]]
    /\ colliderVisible = [m \in RequestIds |-> ColliderNames]
    /\ rafQueue = <<"loop">>
    /\ frameQueue = <<>>
    /\ trace = <<"constructor">>

(***************************************************************************)
(* Actions                                                                 *)
(***************************************************************************)
Idle == frameQueue = <<>>

SetPackage(v) ==
    /\ Idle
    /\ requestId < MaxRequests
    /\ Commit(attributeChangedCallback([Enter("set-package") EXCEPT !.pkgAttr = v], "package"))

SetUrdf(v) ==
    /\ Idle
    /\ requestId < MaxRequests
    /\ Commit(attributeChangedCallback([Enter("set-urdf") EXCEPT !.urdfAttr = v], "urdf"))

\* setAttribute on one of the other observed attributes, with the value it
\* has.
SetOtherAttribute(attr) ==
    /\ Idle
    /\ Commit(attributeChangedCallback(Enter("set-attribute"), attr))

ScheduleLoad ==
    /\ Idle
    /\ requestId < MaxRequests
    /\ Commit(_scheduleLoad(Enter("scheduleLoad")))

Redraw ==
    /\ Idle
    /\ Commit(redraw(Enter("redraw")))

Recenter ==
    /\ Idle
    /\ Commit(recenter(Enter("recenter-call")))

SetAutoRedraw(b) ==
    /\ Idle
    /\ autoRedraw # b
    /\ Commit([Enter("set-autoRedraw") EXCEPT !.autoRedraw = b])

SetNoAutoRecenter(b) ==
    /\ Idle
    /\ noAutoRecenter # b
    /\ Commit([Enter("set-noAutoRecenter") EXCEPT !.noAutoRecenter = b])

Resize(size) ==
    /\ Idle
    /\ containerSize # size
    /\ Commit([Enter("resize") EXCEPT !.containerSize = size])

Connect ==
    /\ Idle
    /\ ~attached
    /\ Count("size", rafQueue) < MaxPendingSize
    /\ Commit(connectedCallback([Enter("connect") EXCEPT !.attached = TRUE]))

Disconnect ==
    /\ Idle
    /\ attached
    /\ Commit(disconnectedCallback([Enter("disconnect") EXCEPT !.attached = FALSE]))

\* The name of a call of setJointValue in the trace.
JointCall(name, v) == "setJointValue:" \o name \o ":" \o ToString(v)

SetJointValue(name, v) ==
    /\ Idle
    /\ Commit(setJointValue(Enter(JointCall(name, v)), name, v))

\* The values setJointValues is called with: the entries of an object, in
\* the order of its keys.
JointValueMaps ==
    {<<>>} \cup {<<<<"j1", v>>, <<name, w>>>> :
                     v \in JointRequests, name \in {"j2", "j9"}, w \in JointRequests}

SetJointValues(values) ==
    /\ Idle
    /\ Commit(setJointValues(Enter("setJointValues"), values))

\* set ignoreLimits
SetIgnoreLimits(b) ==
    /\ Idle
    /\ Commit(applyIgnoreLimits(Enter("set-ignore-limits"), b))

\* el.ignoreLimits = true and then el.ignoreLimits = false, with no other
\* call in between.
ToggleIgnoreLimits ==
    /\ Idle
    /\ Commit(applyIgnoreLimits(
                  applyIgnoreLimits(Enter("toggle-ignore-limits"), TRUE), FALSE))

\* The show-collision attribute is added or removed, or set again.
SetShowCollision(b) ==
    /\ Idle
    /\ Commit(applyCollisionVisibility(
                  Enter(IF showCollision = b THEN "repeat-show-collision"
                                             ELSE "set-show-collision"), b))

\* The values the up attribute is given: absent or empty, well formed
\* ("-y", "x"), and malformed (a sign and no axis letter).
UpStrings == {<<>>, <<"-", "y">>, <<"x">>, <<"-", "q">>}

\* set up
SetUp(v) ==
    /\ Idle
    /\ Commit(attributeChangedCallback([Enter("set-up") EXCEPT !.upAttr = v], "up"))

\* set displayShadow: the display-shadow attribute is added or removed.
SetDisplayShadow(b) ==
    /\ Idle
    /\ Commit(applyDisplayShadow(Enter("set-display-shadow"), b))

\* The browser starts a frame: the callbacks registered so far are the
\* frame's, those registered from now on are the next frame's.
BeginFrame ==
    /\ Idle
    /\ rafQueue # <<>>
    /\ Commit([Enter("frame") EXCEPT !.frameQueue = rafQueue, !.rafQueue = <<>>])

Pop(op) == [Enter(op) EXCEPT !.frameQueue = Tail(@)]

Tick ==
    /\ frameQueue # <<>>
    /\ Head(frameQueue) = "loop"
    /\ \E moved \in BOOLEAN : Commit(renderLoop(Pop("tick"), moved))

SizeCallback ==
    /\ frameQueue # <<>>
    /\ Head(frameQueue) = "size"
    /\ Commit(updateSize(Pop("size-callback")))

LoadCallback ==
    /\ frameQueue # <<>>
    /\ Head(frameQueue) = "load"
    /\ Commit(loadCallback(Pop("load-callback")))

\* The importer has parsed the document of request id and hands the model
\* to the callback of loader.load; meshes: the subtree holds a Mesh by then.
ImportParsed(id, meshes) ==
    /\ Idle
    /\ imports[id].phase = "loading"
    /\ Commit(loadComplete(Enter("load-complete"), id, meshes))

\* Every item of the request's loading manager has ended.
ImportLoaded(id, meshes) ==
    /\ Idle
    /\ imports[id].phase = "parsed"
    /\ Commit(onLoad([Enter("on-load") EXCEPT !.imports[id].phase = "done"], id, id, meshes))

\* The import of request id fails before a model exists: the importer
\* reports the error on its own channel and delivers nothing.
ImportFail(id) ==
    /\ Idle
    /\ imports[id].phase = "loading"
    /\ Commit([Enter("import-failed") EXCEPT !.imports[id].phase = "failed"])

\* The frame machinery and the importer's deliveries, common to every
\* specification.
Frames ==
    \/ BeginFrame
    \/ Tick
    \/ SizeCallback
    \/ LoadCallback
    \/ \E id \in RequestIds, meshes \in BOOLEAN : ImportParsed(id, meshes)
    \/ \E id \in RequestIds, meshes \in BOOLEAN : ImportLoaded(id, meshes)

\* The load orchestrator under every order of requests and deliveries, in
\* an element that may be attached and is never detached again.
NextLoad ==
    \/ \E v \in Packages : SetPackage(v)
    \/ \E v \in Urdfs : SetUrdf(v)
    \/ ScheduleLoad
    \/ Connect
    \/ \E id \in RequestIds : ImportFail(id)
    \/ Frames

SpecLoad == Init /\ [][NextLoad]_vars

\* The render loop under every configuration, attachment and size, with
\* one model loaded through the urdf attribute.
NextLoop ==
    \/ \E v \in LoopUrdfs : SetUrdf(v)
    \/ \E attr \in {"up", "ambient-color"} : SetOtherAttribute(attr)
    \/ Redraw
    \/ Recenter
    \/ \E b \in BOOLEAN : SetAutoRedraw(b)
    \/ \E b \in BOOLEAN : SetNoAutoRecenter(b)
    \/ \E size \in ContainerSizes : Resize(size)
    \/ Connect
    \/ Disconnect
    \/ Frames

SpecLoop == Init /\ [][NextLoop]_vars

\* The pose of one mounted model: joint values, the limit policy and the
\* collider visibility.
NextPose ==
    \/ \E v \in LoopUrdfs : SetUrdf(v)
    \/ \E name \in JointArguments, v \in JointRequests : SetJointValue(name, v)
    \/ \E values \in JointValueMaps : SetJointValues(values)
    \/ \E b \in BOOLEAN : SetIgnoreLimits(b)
    \/ ToggleIgnoreLimits
    \/ \E b \in BOOLEAN : SetShowCollision(b)
    \/ Connect
    \/ Frames

SpecPose == Init /\ [][NextPose]_vars

\* The framing of the scene: the up axis, the shadow display, recenters
\* and swaps between two models, each mounted when its document is parsed.
NextScene ==
    \/ \E v \in SceneUrdfs : SetUrdf(v)
    \/ \E v \in UpStrings : SetUp(v)
    \/ \E b \in BOOLEAN : SetDisplayShadow(b)
    \/ Recenter
    \/ BeginFrame
    \/ Tick
    \/ LoadCallback
    \/ \E id \in RequestIds : ImportParsed(id, FALSE)

SpecScene == Init /\ [][NextScene]_vars

\* The render loop with everything that sets the dirty flag: redraw,
\* recenter, a joint value, a mounted load, a resize met by the size
\* callback or the tick, and a camera move.
NextLive ==
    \/ \E v \in LoopUrdfs : SetUrdf(v)
    \/ \E v \in JointRequests : SetJointValue("j1", v)
    \/ Redraw
    \/ Recenter
    \/ Connect
    \/ Disconnect
    \/ BeginFrame
    \/ Tick
    \/ SizeCallback
    \/ LoadCallback
    \/ \E id \in RequestIds : ImportParsed(id, FALSE)

\* The browser runs every registered frame callback: a frame begins
\* whenever callbacks are registered, and each callback of the frame runs.
FrameFairness ==
    /\ WF_vars(BeginFrame)
    /\ WF_vars(Tick)
    /\ WF_vars(SizeCallback)
    /\ WF_vars(LoadCallback)

SpecLive == Init /\ [][NextLive]_vars /\ FrameFairness

Next == NextLoad \/ NextLoop \/ NextPose \/ NextScene \/ NextLive

Spec == Init /\ [][Next]_vars

TypeOK ==
    /\ requestId \in 0..MaxRequests
    /\ robot \in {NoRobot} \cup RequestIds
    /\ worldChildren \subseteq RequestIds
    /\ disposed \subseteq RequestIds
    /\ dirty \in BOOLEAN

(***************************************************************************)
(* Vocabulary of the properties                                            *)
(***************************************************************************)
\* The request that imports for the last scheduled pair: none while the
\* load callback is still to run, or when it ran with an empty locator.
LatestRequest ==
    IF /\ ~loadScheduled
       /\ requestId > 0
       /\ Key(imports[requestId].pkg, imports[requestId].urdf) = prevload
    THEN requestId
    ELSE NoRobot

Mounted == worldChildren \cup (IF robot = NoRobot THEN {} ELSE {robot})

\* The step is the render loop's frame callback.
TickStep ==
    /\ frameQueue # <<>>
    /\ Head(frameQueue) = "loop"
    /\ frameQueue' = Tail(frameQueue)

\* The step is the frame callback registered by _scheduleLoad.
LoadCallbackStep ==
    /\ frameQueue # <<>>
    /\ Head(frameQueue) = "load"
    /\ frameQueue' = Tail(frameQueue)

\* The step is a call of _scheduleLoad that finds the pair changed.
ChangedPairStep == prevload' # prevload

\* The step delivers a callback of the import of request id.
CompletionStep(id) == imports'[id].phase # imports[id].phase /\ imports[id].phase # "none"

\* The requests for which the step calls loader.load.
ImportsStarted == {id \in RequestIds : imports[id].phase = "none" /\ imports'[id].phase = "loading"}

LoopRunning == Occurs("loop", rafQueue \o frameQueue)

(***************************************************************************)
(* C1.  Only the model of the most recent scheduleLoad call is ever        *)
(* mounted: a completion whose captured request id differs from the        *)
(* current counter never mounts its result and leaves the robot slot and   *)
(* the children of world as they were.                                     *)
(***************************************************************************)
C1_StaleCompletionNeverMounts ==
    [][\A id \in RequestIds :
          (CompletionStep(id) /\ id # requestId) =>
              UNCHANGED <<robot, worldChildren>>]_vars

(***************************************************************************)
(* C2.  At most one robot subtree is a child of world, and it is the model *)
(* in the robot slot; with the slot empty, world has no robot child.       *)
(***************************************************************************)
C2_OneRobotUnderWorld ==
    worldChildren = (IF robot = NoRobot THEN {} ELSE {robot})

(***************************************************************************)
(* C3.  A scheduleLoad call with a changed pair detaches the mounted model *)
(* at once, and from the call until the import of the new request          *)
(* completes no model is mounted, whatever earlier import completes in     *)
(* between.                                                                *)
(***************************************************************************)
AwaitingNewModel ==
    \/ loadScheduled
    \/ LatestRequest # NoRobot /\ imports[LatestRequest].phase = "loading"

C3_DetachedUntilOwnImport ==
    /\ [][ChangedPairStep => Mounted' = {}]_vars
    /\ [](AwaitingNewModel => Mounted = {})

(***************************************************************************)
(* C4.  A model that was dropped (unmounted by a scheduleLoad, or          *)
(* delivered after its request was superseded) has had the dispose         *)
(* traversal and is then neither a child of world nor in the robot slot.   *)
(***************************************************************************)
C4_DroppedIsDetached ==
    \A m \in RequestIds : m \in disposed => m \notin Mounted

(***************************************************************************)
(* C5.  The scheduleLoad calls made between two frames share one load      *)
(* callback, and when that callback runs in the next frame with a locator  *)
(* that is not empty it starts exactly one import, given the package spec  *)
(* and the locator current in that frame; no other step starts an import.  *)
(***************************************************************************)
PendingLoadCallbacks == Count("load", rafQueue \o frameQueue)

OneLoadCallbackWhenScheduled ==
    PendingLoadCallbacks = (IF loadScheduled THEN 1 ELSE 0)

StartsOneImportOfCurrentPair ==
    /\ Cardinality(ImportsStarted) = 1
    /\ requestId' = requestId + 1
    /\ ImportsStarted = {requestId'}
    /\ imports'[requestId'].pkg = pkgAttr
    /\ imports'[requestId'].urdf = urdfAttr

C5_OneImportPerFrame ==
    /\ []OneLoadCallbackWhenScheduled
    /\ [][/\ (LoadCallbackStep /\ urdfAttr # <<>>) => StartsOneImportOfCurrentPair
          /\ ~LoadCallbackStep => ImportsStarted = {}]_vars

(***************************************************************************)
(* C6.  _scheduleLoad called while the pair equals the pair of the last    *)
(* scheduled load changes nothing: counter, mounted model, pending-load    *)
(* flag, dirty flag, registered callbacks and imports stay as they are.    *)
(* Reached through an attribute change, the same holds of all but the      *)
(* dirty flag, which the attribute handler's own recenter sets.            *)
(***************************************************************************)
LoadState == <<requestId, robot, worldChildren, disposed, loadScheduled,
               prevload, imports, rafQueue>>

C6_UnchangedPairIsNoOp ==
    [][/\ (trace'[1] = "scheduleLoad" /\ Key(pkgAttr, urdfAttr) = prevload)
            => UNCHANGED <<LoadState, dirty>>
       /\ (trace'[1] \in {"set-package", "set-urdf"}
             /\ Key(pkgAttr', urdfAttr') = prevload)
            => UNCHANGED LoadState]_vars

\* _scheduleLoad has been called with a model mounted and left it mounted.
C6_Witness ==
    /\ trace = <<"scheduleLoad">>
    /\ robot # NoRobot
    /\ ~loadScheduled
    /\ ~dirty

(***************************************************************************)
(* C7.  When the import of the latest request fails, the render loop stays *)
(* registered, no model is mounted, and no urdf-processed or               *)
(* geometry-loaded notification is dispatched for the failed request.      *)
(***************************************************************************)
FailureStep(id) == imports[id].phase = "loading" /\ imports'[id].phase = "failed"

C7_FailureLeavesNothingMounted ==
    [][\A id \in RequestIds :
          (FailureStep(id) /\ id = LatestRequest) =>
              /\ LoopRunning' = LoopRunning
              /\ id \notin notified'
              /\ ~Occurs("urdf-processed", trace')
              /\ ~Occurs("geometry-loaded", trace')
              /\ Mounted' = {}]_vars

(***************************************************************************)
(* C8.  The render loop is RUNNING after construction and STOPPED from the *)
(* detach on; STOPPED is absorbing: no tick runs in a stopped loop, so     *)
(* nothing is drawn and the controller is not advanced, also when the      *)
(* element is attached again.                                              *)
(***************************************************************************)
C8_StoppedIsAbsorbing ==
    /\ LoopRunning
    /\ [][/\ trace'[1] = "disconnect" => ~LoopRunning'
          /\ (LoopRunning /\ ~LoopRunning') => trace'[1] = "disconnect"
          /\ ~LoopRunning =>
                /\ ~LoopRunning'
                /\ trace'[1] # "tick"
                /\ ~Occurs("draw", trace')
                /\ ~Occurs("controls", trace')]_vars

\* The element was detached and attached again, a frame has run the size
\* callback of the second attachment, and the scene is still to be drawn.
C8_Witness ==
    /\ ~LoopRunning
    /\ attached
    /\ trace[1] = "size-callback"
    /\ dirty

(***************************************************************************)
(* C9.  A tick of the attached element draws exactly when the dirty flag   *)
(* is set or autoRedraw is configured, the flag being read after the       *)
(* tick's resize step, which sets it when the size changed; the draw       *)
(* clears the flag (only a controller change after the draw sets it        *)
(* again); the controller is advanced in every such tick.  A tick of an    *)
(* element with no parent draws nothing.                                   *)
(***************************************************************************)
RecenterAfterDraw(t) ==
    \E i \in 1..Len(t) : t[i] = "recenter" /\ i > FirstAt("draw", t)

C9_TickDrawsWhenDirty ==
    [][TickStep =>
          IF attached
          THEN /\ Occurs("draw", trace')
                    <=> (dirty \/ rendererSize # containerSize \/ autoRedraw)
               /\ Occurs("draw", trace') => (dirty' <=> RecenterAfterDraw(trace'))
               /\ Occurs("controls", trace')
          ELSE /\ ~Occurs("draw", trace')
               /\ ~Occurs("controls", trace')
               /\ dirty' = dirty]_vars

\* A tick found the flag set, drew, cleared the flag and advanced the
\* controller.
C9_Witness ==
    /\ trace = <<"tick", "draw", "controls">>
    /\ ~autoRedraw
    /\ ~dirty

(***************************************************************************)
(* C10.  A tick that finds the container size different from the           *)
(* renderer's calls recenter() once in its resize step, before the draw of *)
(* that tick; a tick that finds the sizes equal calls no recenter() in its *)
(* resize step.                                                            *)
(***************************************************************************)
RecentersBefore(e, t) ==
    Cardinality({i \in 1..Len(t) : t[i] = "recenter" /\ i < FirstAt(e, t)})

C10_OneRecenterPerResize ==
    [][(TickStep /\ attached) =>
          /\ RecentersBefore("controls", trace')
                = (IF rendererSize # containerSize THEN 1 ELSE 0)
          /\ rendererSize # containerSize =>
                /\ Occurs("draw", trace')
                /\ RecentersBefore("draw", trace') = 1
          /\ rendererSize' = containerSize]_vars

\* The container went from 800x600 to 400x300 and the next tick has
\* recentred once, then drawn.
C10_Witness ==
    /\ trace = <<"tick", "recenter", "draw", "controls">>
    /\ rendererSize = <<400, 300>>

(***************************************************************************)
(* C11.  Two calls of setJointValue in a row with the same arguments: the  *)
(* first marks the scene dirty and dispatches one angle-change carrying    *)
(* the joint's name, the second does neither.                              *)
(***************************************************************************)
NotifiesOnce(name) ==
    /\ dirty'
    /\ trace' = <<trace'[1], "angle-change:" \o name>>

NotifiesNothing == dirty' = dirty /\ Len(trace') = 1

\* A second call with the arguments of the call just made marks and
\* dispatches nothing.
SecondCallIsSilent ==
    \A name \in JointArguments, v \in JointRequests :
        LET first == setJointValue(Enter(JointCall(name, v)), name, v)
            second == setJointValue([first EXCEPT !.trace = <<JointCall(name, v)>>], name, v)
        IN /\ second.trace = <<JointCall(name, v)>>
           /\ second.dirty = first.dirty
           /\ second.jointValue = first.jointValue

C11_FirstCallNotifies ==
    /\ []SecondCallIsSilent
    /\ [][\A name \in JointArguments, v \in JointRequests :
             (trace'[1] = JointCall(name, v) /\ trace[1] # JointCall(name, v))
                 => NotifiesOnce(name)]_vars

\* C11 as amended: a call marks the scene dirty and dispatches one
\* angle-change with the joint's name exactly when it changes the joint's
\* value (none with no model mounted, or for a name that is no joint's),
\* and a second call with the same arguments does neither.
C11_NotifiesExactlyOnChange ==
    /\ []SecondCallIsSilent
    /\ [][\A name \in JointArguments, v \in JointRequests :
             trace'[1] = JointCall(name, v) =>
                 IF jointValue' # jointValue THEN NotifiesOnce(name)
                                             ELSE NotifiesNothing]_vars

\* A call asked joint j1 for a value above its limit: the joint took the
\* limit, and the call marked the scene and dispatched once.
C11_Witness ==
    /\ robot # NoRobot
    /\ trace = <<JointCall("j1", MaxJointRequest), "angle-change:j1">>
    /\ jointValue[robot]["j1"] = UpperLimit
    /\ dirty

(***************************************************************************)
(* C16.  With a model mounted, showing and then hiding the colliders       *)
(* leaves every collider node as visible as it was before, and applying    *)
(* the same flag twice gives the state that applying it once gives.        *)
(***************************************************************************)
Untraced(s) == [s EXCEPT !.trace = <<>>]

CollisionFlagIsIdempotent ==
    \A b \in BOOLEAN :
        Untraced(applyCollisionVisibility(applyCollisionVisibility(Cur, b), b))
            = Untraced(applyCollisionVisibility(Cur, b))

ShownThenHidden == applyCollisionVisibility(applyCollisionVisibility(Cur, TRUE), FALSE)

C16_RoundTripRestores ==
    robot # NoRobot =>
        /\ ShownThenHidden.colliderVisible = colliderVisible
        /\ CollisionFlagIsIdempotent

\* C16 as amended: showing and then hiding leaves every collider node of
\* the mounted model hidden, which is how it was before exactly when it was
\* hidden before; the flag applied twice is the flag applied once.  A set
\* of the flag makes the colliders as visible as the flag says, but for a
\* removal of the absent attribute, which changes nothing.
C16_RoundTripHides ==
    /\ [](robot # NoRobot =>
            /\ ShownThenHidden.colliderVisible[robot] = {}
            /\ (ShownThenHidden.colliderVisible = colliderVisible)
                   <=> (colliderVisible[robot] = {})
            /\ CollisionFlagIsIdempotent)
    /\ [][(trace'[1] \in {"set-show-collision", "repeat-show-collision"}
             /\ robot # NoRobot)
            => /\ robot' = robot
               /\ IF showCollision \/ showCollision'
                  THEN colliderVisible'[robot]
                           = (IF showCollision' THEN ColliderNames ELSE {})
                  ELSE UNCHANGED colliderVisible]_vars

\* The show-collision attribute of an element with a model was set and
\* has been removed again: the colliders are hidden.
C16_Witness ==
    /\ trace[1] = "set-show-collision"
    /\ ~showCollision
    /\ robot # NoRobot
    /\ robot \in notified
    /\ colliderVisible[robot] = {}

(***************************************************************************)
(* C17.  For every joint of the mounted model whose value lies within its  *)
(* limits, ignoring the limits and then observing them again, with no      *)
(* setJointValue in between, leaves the joint's value as it was: the value *)
(* a clamped set of it gives.                                              *)
(***************************************************************************)
\* Joint j of model m has a value within its limits.
WithinLimits(m, j) == jointValue[m][j] \in LowerLimit..UpperLimit

IgnoredThenObserved == applyIgnoreLimits(applyIgnoreLimits(Cur, TRUE), FALSE)

\* The step is one setting of ignoreLimits, or the two settings in a row.
IgnoreLimitsStep == trace'[1] \in {"set-ignore-limits", "toggle-ignore-limits"}

\* C17: in every state with a model, whatever the other joints hold, a joint
\* whose value lies within its limits has the same value after ignoreLimits
\* is set to true and then to false, and that value is the one a clamped
\* set of it gives; and no step that sets ignoreLimits, once or as the two
\* settings in a row, changes the value of such a joint.
C17_ToggleKeepsValues ==
    /\ [](robot # NoRobot =>
            \A j \in JointNames :
                WithinLimits(robot, j) =>
                    /\ IgnoredThenObserved.jointValue[robot][j] = jointValue[robot][j]
                    /\ IgnoredThenObserved.jointValue[robot][j]
                           = Clamp(jointValue[robot][j]))
    /\ [][(IgnoreLimitsStep /\ robot # NoRobot) =>
            \A j \in JointNames :
                WithinLimits(robot, j) =>
                    jointValue'[robot][j] = jointValue[robot][j]]_vars

\* ignoreLimits was set to true and then to false in one step that ran
\* _setIgnoreLimits on the mounted model: one joint is at its upper limit,
\* the other at its lower limit.
C17_Witness ==
    /\ trace[1] = "toggle-ignore-limits"
    /\ Occurs("recenter", trace)
    /\ ~ignoreLimits
    /\ robot # NoRobot
    /\ jointValue[robot]["j1"] = UpperLimit
    /\ jointValue[robot]["j2"] = LowerLimit

(***************************************************************************)
(* C12.  recenter() with no model mounted is a no-op: the ground-plane     *)
(* height, the camera target, the light position, target and frustum, and  *)
(* the dirty flag are all left unchanged.                                  *)
(***************************************************************************)
RecenterCallStep == trace'[1] = "recenter-call" /\ trace' # trace

\* C12: a call of recenter() while no model is mounted changes neither the
\* plane height, the camera target, the light's position, target and
\* frustum, nor the dirty flag.
C12_RecenterWithoutModelIsNoOp ==
    [][(RecenterCallStep /\ robot = NoRobot) =>
           UNCHANGED <<planeY, targetY, lightPosition, lightTarget, shadowExtent,
                       castShadow, dirty>>]_vars

(***************************************************************************)
(* C13.  recenter() on a mounted model sets the ground-plane Y to the      *)
(* minimum Y of the bounding box of the visual nodes, less epsilon, and    *)
(* the camera target Y to the Y of the box's centre; for the box           *)
(* [(-1,0,-1),(1,2,1)] the claim gives -1 - epsilon and 1.                 *)
(***************************************************************************)
ExampleBox == [min |-> <<-1000, 0, -1000>>, max |-> <<1000, 2000, 1000>>]

\* The step ran recenter, and a model is mounted when it ends.
RecenteredOnModel == Occurs("recenter", trace') /\ robot' # NoRobot

\* The box recenter measured: the visual nodes of the mounted model under
\* the world node's rotation.
MeasuredBox == VisualBox(robot', worldRotation')

FramesBox(box) ==
    /\ planeY' = box.min[2] - Epsilon
    /\ targetY' = BoxCenter(box)[2]

\* C13: after a recenter on a mounted model the plane is at the visual
\* box's minimum Y less epsilon and the camera target at its centre Y, and
\* for the box [(-1,0,-1),(1,2,1)] the plane is at -1 - epsilon and the
\* target at 1.
C13_ExamplePlaneAtMinusOne ==
    [][RecenteredOnModel =>
           /\ FramesBox(MeasuredBox)
           /\ MeasuredBox = ExampleBox =>
                  (planeY' = -1000 - Epsilon /\ targetY' = 1000)]_vars

\* C13 as amended: after a recenter on a mounted model the plane is at
\* the minimum Y of the box of the visual nodes less epsilon and the camera
\* target at the Y of its centre; for the box [(-1,0,-1),(1,2,1)] that is
\* a plane at 0 - epsilon and a target at 1.
C13_PlaneBelowVisualBox ==
    [][RecenteredOnModel =>
           /\ FramesBox(MeasuredBox)
           /\ MeasuredBox = ExampleBox =>
                  (planeY' = 0 - Epsilon /\ targetY' = 1000)]_vars

\* Model 1, whose visual nodes span [(-1,0,-1),(1,2,1)], is mounted under
\* an unrotated world node and has been recentered on.
C13_Witness ==
    /\ robot # NoRobot
    /\ VisualBox(robot, worldRotation) = ExampleBox
    /\ Occurs("recenter", trace)
    /\ planeY = 0 - Epsilon
    /\ targetY = 1000

(***************************************************************************)
(* C14.  In every reachable state, the state right after construction      *)
(* included, the world node's rotation is the one of the effective up      *)
(* axis (default +Z), and only an up-axis change alters it.                *)
(***************************************************************************)
\* The rotation _setUp gives the world node for the current up property.
EffectiveUpRotation == _setUp(Cur, UpProperty(Cur)).worldRotation

\* C14: the world node's rotation is always the rotation of the effective
\* up axis, from construction on, and no step other than a change of the
\* up attribute alters it.
C14_RotationFollowsUp ==
    /\ [](worldRotation = EffectiveUpRotation)
    /\ [][worldRotation' # worldRotation => trace'[1] = "set-up"]_vars

(***************************************************************************)
(* C15.  A malformed package spec, such as "a:b,", or a malformed up-axis  *)
(* string never makes an operation fail: the load still starts the import  *)
(* and the up axis falls back to +Z, and no error escapes the controller.  *)
(***************************************************************************)
\* The step raised an error that nothing in the controller catches.
ErrorEscapes == Occurs("TypeError", trace')

\* Up-axis strings that name no axis.
MalformedUps == {<<"q">>, <<"-", "q">>, <<"ẙ">>}

\* _setUp given a malformed string turns the world node to +Z.
MalformedUpFallsBack ==
    \A up \in MalformedUps : _setUp(Cur, up).worldRotation = UpRotation("+", "Z")

\* C15: no step lets an error escape, the load callback of a frame with a
\* locator starts the import whatever the package spec, and a malformed
\* up-axis string gives the rotation of +Z.
C15_MalformedInputNeverFails ==
    /\ []MalformedUpFallsBack
    /\ [][~ErrorEscapes]_vars
    /\ [][(LoadCallbackStep /\ urdfAttr # <<>>) => ImportsStarted = {requestId'}]_vars

(***************************************************************************)
(* C18.  When a load completes with auto-recenter disabled, the model is   *)
(* mounted and both notifications are emitted, but the view is not         *)
(* recentered: plane height, camera target and light framing keep their    *)
(* values from before the completion.                                      *)
(***************************************************************************)
\* The step is a completion of request id that mounts its model and emits
\* the model-processed and geometry-loaded notifications.
MountsAndNotifies(id) ==
    /\ CompletionStep(id)
    /\ robot' = id
    /\ Occurs("urdf-processed", trace')
    /\ Occurs("geometry-loaded", trace')

Framing == <<planeY, targetY, lightPosition, lightTarget, shadowExtent>>

\* C18: a completion that mounts and notifies while auto-recenter is
\* disabled does not recenter, and leaves the plane height, the camera
\* target and the light framing as they were.
C18_CompletionKeepsFraming ==
    [][\A id \in RequestIds :
          (MountsAndNotifies(id) /\ noAutoRecenter) =>
              /\ ~Occurs("recenter", trace')
              /\ UNCHANGED Framing]_vars

(***************************************************************************)
(* C19.  After any sequence of recenters and model swaps the vector from   *)
(* the directional light's target to the light is the offset it had at     *)
(* construction; a recenter with shadow display enabled moves the target   *)
(* to the bounding-box centre and the light by the same displacement, and  *)
(* a recenter with shadow display disabled leaves the light's position,    *)
(* target and frustum unchanged.                                           *)
(***************************************************************************)
LightOffset == VectorSub(lightPosition, lightTarget)

LightFraming == <<lightPosition, lightTarget, shadowExtent>>

\* C19: the light keeps the offset from its target that it had at
\* construction; a recenter on a model with shadows displayed puts the
\* target at the centre of the measured box and displaces the light as it
\* displaces the target; with shadows not displayed no step changes the
\* light's position, target or frustum.
C19_LightKeepsOffset ==
    /\ [](LightOffset = VectorSub(InitialLightPosition, Origin))
    /\ [][(RecenteredOnModel /\ displayShadow') =>
              /\ lightTarget' = BoxCenter(MeasuredBox)
              /\ VectorSub(lightPosition', lightPosition)
                     = VectorSub(lightTarget', lightTarget)]_vars
    /\ [][~displayShadow' => UNCHANGED LightFraming]_vars

\* The second model has replaced the first and, with shadows displayed, a
\* recenter has moved the light's target from the origin to the centre of
\* its box, and the light along with it.
C19_Witness ==
    /\ robot = 2
    /\ displayShadow
    /\ Occurs("recenter", trace)
    /\ lightTarget = BoxCenter(VisualBox(robot, worldRotation))
    /\ lightTarget # Origin
    /\ lightPosition = VectorAdd(lightTarget, InitialLightPosition)
    /\ shadowExtent = BoundingRadius(VisualBox(robot, worldRotation))

(***************************************************************************)
(* C20.  While the render loop is running and the element stays attached,  *)
(* every setting of the dirty flag is eventually followed by a tick that   *)
(* draws the scene, ticks being scheduled fairly; the flag is never        *)
(* cleared without a draw.                                                 *)
(***************************************************************************)
\* The step is a tick that draws the scene.
DrawingTick == TickStep /\ Occurs("draw", trace')

\* The flag is set, the loop is running and the element is attached.
DrawOwed == dirty /\ LoopRunning /\ attached

\* The last step was a tick that drew the scene.
Drawn == trace[1] = "tick" /\ Occurs("draw", trace)

\* C20: a flag set with the loop running and the element attached leads
\* to a tick that draws, unless the element is detached or the loop
\* stopped; a flag set by the drawing tick itself (the camera moved) is
\* covered by the second conjunct: drawing ticks never cease while a draw
\* remains owed; and a step that clears the flag draws.
C20_DirtyLeadsToDraw ==
    /\ (DrawOwed /\ ~Drawn) ~> (Drawn \/ ~attached \/ ~LoopRunning)
    /\ ([]<><<DrawingTick>>_vars \/ <>[]~DrawOwed)
    /\ [][(dirty /\ ~dirty') => Occurs("draw", trace')]_vars

\* A tick of an attached element with a mounted model has drawn the scene
\* and cleared the flag.
C20_Witness ==
    /\ trace[1] = "tick"
    /\ Occurs("draw", trace)
    /\ attached
    /\ LoopRunning
    /\ robot # NoRobot
    /\ ~dirty

====
